---- MODULE Spec2Model ----
(***************************************************************************)
(* Ingestion pipeline of block-ex: scheduler -> block workers -> tx        *)
(* workers -> persister over bounded queues, the relational store, the     *)
(* checkpoint, the reorg healer and the mempool watcher, against a daemon  *)
(* whose chain may grow and reorganize between RPC calls.                   *)
(*                                                                         *)
(* A block hash is the pair <<height, epoch>>: the daemon's chain is a     *)
(* function from heights to epochs, a reorg at fork f replaces every block *)
(* at a height >= f by a block of a fresh epoch.  A transaction hash is a  *)
(* triple: <<"m", h, e>> is the miner tx of block <<h, e>>, <<"t", h, 0>>  *)
(* the user transaction mined at height h (re-mined at the same height by  *)
(* a reorganized chain).                                                   *)
(***************************************************************************)
EXTENDS Integers, Sequences, FiniteSets, TLC

\* ---------------------------------------------------------------- bounds
MaxTip == 3
MaxReorgs == 1
\* how far past the confirmation window the long stable chain reaches
ConfSlack == 2
\* analytics backfill inputs: heights a store may hold, and the batch size
BfHeights == 3
MaxBatch == 3
\* mempool eviction inputs: block heights whose transactions a store may hold
EvHeights == 2
\* tx-extra inputs: the number of fields in an extra blob before it is cut
MaxFields == 4
\* limiter inputs: configured rates 0..MaxRate and concurrency caps 0..MaxConc
MaxRate == 40
MaxConc == 8
\* tx worker inputs: requests one block's hashes may need, and cfg.concurrency
MaxTxChunks == 3
MaxTxConc == 2
\* header fetcher inputs: heights one worker may be asked for, and header_batch
HfHeights == 6
MaxHeaderBatch == 3
\* queue inputs: sched_buffer, the sizes of the worker pools, the heights a pool of
\* several workers is given, and the heights beyond what a pipeline can hold
MaxSchedBuffer == 2
MaxBlockWorkers == 2
MaxTxWorkers == 2
QRaceHeights == 4
QSlack == 2
\* watcher inputs: the transactions the daemon's pool may list
PoolTxs == 3
\* fetch_txs_adaptive inputs: list length, daemon limit K, start chunk
MaxHashes == 25
MaxK == 13
StartChunks == {1, 20, 40}

\* --------------------------------------------------------- configuration
FinalityWindow == 1
BlockWorkers == 2
TxWorkers == 1
SchedBuffer == 8
WindowExtra == 16

BlockWorkerIds == 1..BlockWorkers
TxWorkerIds == 1..TxWorkers
Heights == 1..MaxTip
StartHeight == 1
Limit == MaxTip

Max(a, b) == IF a >= b THEN a ELSE b
Min(a, b) == IF a <= b THEN a ELSE b

NoMsg == [height |-> -1]
NoHeal == [start |-> -1, fork |-> -1, res |-> "none"]

VARIABLES
    dTip, dEp, dReorgs,             \* daemon: tip height, epoch per height, reorgs so far
    sPc, sNext, sProcessed, sMsg,   \* scheduler
    qSched, qBlock, qTx,            \* the three bounded queues
    bw, tw,                         \* block workers, tx workers
    pPc, pMsg,                      \* persister
    blocks, tips, txs, mempool,     \* store tables
    ckpt,                           \* ingestor_checkpoint singleton row
    wPc, wSnap,                     \* mempool watcher
    healTick, lastHeal,             \* record of the last heal_reorg call
    rpc,                            \* the daemon requests the last step sent
    fetch,                          \* a fetch_txs_adaptive call
    cp,                             \* a Checkpoint::set in progress and a get_state result
    shutdown,                       \* whether the shutdown signal has fired
    rest,                           \* a REST response and what the client made of it
    sStart,                         \* the scheduler's configured start_height
    bf,                             \* an analytics backfill call and the tables it works on
    ev,                             \* a mempool evict followed by a requeue
    px,                             \* a parse_tx_extra call
    lim,                            \* a rate limiter built by make_limiter
    tf,                             \* a fetch_transactions call of a tx worker
    rp,                             \* a TxMsg persisted once and then again
    hf,                             \* a HeaderFetcher: mode, buffer and its requests
    wl,                             \* the mempool watcher's receive loop
    pq                              \* a pipeline of bounded queues under a stalling persister

daemonVars == <<dTip, dEp, dReorgs>>
schedVars == <<sPc, sNext, sProcessed, sMsg>>
storeVars == <<blocks, tips, txs, mempool>>
watchVars == <<wPc, wSnap>>
pipeVars == <<qSched, qBlock, qTx, bw, tw, pPc, pMsg>>
healVars == <<healTick, lastHeal>>
lateVars == <<rp, hf, wl, pq>>
moreVars == <<bf, ev, px, lim, tf, lateVars>>
auxVars == <<fetch, cp, shutdown, rest, sStart, moreVars>>
vars == <<dTip, dEp, dReorgs, sPc, sNext, sProcessed, sMsg, qSched, qBlock, qTx,
          bw, tw, pPc, pMsg, blocks, tips, txs, mempool, ckpt, wPc, wSnap,
          healTick, lastHeal, rpc, fetch, cp, shutdown, rest, sStart,
          bf, ev, px, lim, tf, rp, hf, wl, pq>>

\* a request to the daemon, and whether a limiter token was acquired for it
Req(call, token) == [call |-> call, token |-> token]
\* fetch_chain_tip: limiter.until_ready, then get_block_count
TipRequests == {Req("get_block_count", TRUE)}
\* HeaderFetcher: limiter.until_ready, then the header request
HeaderRequests == {Req("get_block_header_by_height", TRUE)}
\* fetch_block_json: limiter.until_ready, then get_block
BlockRequests == {Req("get_block", TRUE)}
\* fetch_transactions: limiter.until_ready, then get_transactions
TxRequests == {Req("get_transactions", TRUE)}
\* heal_reorg: get_block_header_by_height with no limiter in reach
HealRequests == {Req("get_block_header_by_height", FALSE)}
\* refresh_from_pool: get_transaction_pool_hashes with no limiter in reach
PoolRequests == {Req("get_transaction_pool_hashes", FALSE)}

Idle == [pc |-> "none"]
\* none of the calls checked on their own is under way
InitLate ==
    /\ rp = Idle
    /\ hf = Idle
    /\ wl = Idle
    /\ pq = Idle

InitMore ==
    /\ InitLate
    /\ bf = Idle
    /\ ev = Idle
    /\ px = Idle
    /\ lim = Idle
    /\ tf = Idle

NoFetch == [pc |-> "none"]
NoCp == [pc |-> "none"]
NoRest == [pc |-> "none"]

\* ----------------------------------------------------------------- daemon
GenesisHash == <<0, 0>>
\* the block hash at a height; the genesis block's predecessor is the zero hash
ZeroHash == <<-1, 0>>
DaemonHash(h) ==
    IF h < 0 THEN ZeroHash
    ELSE IF h = 0 THEN GenesisHash
    ELSE IF h \in DOMAIN dEp THEN <<h, dEp[h]>>
    ELSE <<h, 0>>
\* get_block_header_by_height
DaemonHeader(h) == [height |-> h, hash |-> DaemonHash(h), prev_hash |-> DaemonHash(h - 1)]
\* get_block: the ordered tx hashes and the miner tx hash of the block with this hash
MinerTxOf(hash) == <<"m", hash[1], hash[2]>>
TxHashesOf(hash) == << <<"t", hash[1], 0>> >>
\* get_transaction_pool_hashes: the transactions not yet mined
DaemonPool == {<<"t", h, 0>> : h \in (dTip + 1)..MaxTip}

DaemonGrow ==
    /\ dTip < MaxTip
    /\ dTip' = dTip + 1
    /\ dEp' = [dEp EXCEPT ![dTip + 1] = dReorgs]
    /\ rpc' = {}
    /\ UNCHANGED <<auxVars, dReorgs, schedVars, qSched, qBlock, qTx, bw, tw, pPc, pMsg,
                   storeVars, ckpt, watchVars, healVars>>

DaemonReorg ==
    /\ dReorgs < MaxReorgs
    /\ \E f \in 1..dTip :
         dEp' = [h \in Heights |-> IF h >= f /\ h <= dTip THEN dReorgs + 1 ELSE dEp[h]]
    /\ dReorgs' = dReorgs + 1
    /\ rpc' = {}
    /\ UNCHANGED <<auxVars, dTip, schedVars, qSched, qBlock, qTx, bw, tw, pPc, pMsg,
                   storeVars, ckpt, watchVars, healVars>>

\* -------------------------------------------------------------- scheduler
ReadCheckpoint == IF ckpt.present THEN ckpt.last ELSE 0
\* a finalized height that ignores the window
FinalizedOfTip(tip) == tip
FinalizedOf(tip) == Max(0, tip - FinalityWindow)

\* Option<i64>
None == [some |-> FALSE]
Some(v) == [some |-> TRUE, v |-> v]
\* a start that repeats the checkpointed height
SchedStartRepeat(start, last) == Max(IF start.some THEN start.v ELSE last, 0)
\* next_height = start_height, else checkpoint.get() + 1, and 0 if negative
SchedStart(start, last) == Max(IF start.some THEN start.v ELSE last + 1, 0)

SchedPoll ==
    /\ sPc = "poll"
    /\ sProcessed < Limit
    /\ IF sNext <= dTip
         THEN /\ sMsg' = [height |-> sNext, tip |-> dTip, fin |-> FinalizedOf(dTip)]
              /\ sPc' = "send"
         ELSE UNCHANGED <<sMsg, sPc>>
    /\ rpc' = TipRequests
    /\ UNCHANGED <<auxVars, sNext, sProcessed, daemonVars, qSched, qBlock, qTx, bw, tw, pPc, pMsg,
                   storeVars, ckpt, watchVars, healVars>>

\* fetch_chain_tip returns the error of get_block_count and run returns it with `?`
SchedPollFail ==
    /\ sPc = "poll"
    /\ sProcessed < Limit
    /\ sPc' = "failed"
    /\ rpc' = TipRequests
    /\ UNCHANGED <<auxVars, sNext, sProcessed, sMsg, daemonVars, qSched, qBlock, qTx, bw, tw,
                   pPc, pMsg, storeVars, ckpt, watchVars, healVars>>

SchedSend ==
    /\ sPc = "send"
    /\ Len(qSched) < SchedBuffer
    /\ qSched' = Append(qSched, sMsg)
    /\ sMsg' = NoMsg
    /\ sNext' = sNext + 1
    /\ sProcessed' = sProcessed + 1
    /\ sPc' = "poll"
    /\ rpc' = {}
    /\ UNCHANGED <<auxVars, daemonVars, qBlock, qTx, bw, tw, pPc, pMsg,
                   storeVars, ckpt, watchVars, healVars>>

SchedFinish ==
    /\ sPc = "poll"
    /\ sProcessed >= Limit
    /\ sPc' = "done"
    /\ rpc' = {}
    /\ UNCHANGED <<auxVars, sNext, sProcessed, sMsg, daemonVars, qSched, qBlock, qTx, bw, tw,
                   pPc, pMsg, storeVars, ckpt, watchVars, healVars>>

\* ------------------------------------------------------------------ store
EmptyFn == [x \in {} |-> 0]
Restrict(f, S) == [x \in S |-> f[x]]

\* blocks.hash at a height, None when no row
HasBlock(b, h) == h \in DOMAIN b

\* INSERT INTO blocks ... ON CONFLICT DO NOTHING
InsertBlock(b, height, hash, prev) ==
    IF height \in DOMAIN b THEN b
    ELSE [x \in DOMAIN b \cup {height} |->
            IF x = height
              THEN [hash |-> hash, prev_hash |-> prev, confirmations |-> 0, is_final |-> FALSE]
              ELSE b[x]]

\* INSERT INTO txs ... ON CONFLICT DO NOTHING, for each prepared tx of the block
InsertTxs(t, hashes, height) ==
    [x \in DOMAIN t \cup hashes |-> IF x \in DOMAIN t THEN t[x] ELSE height]

\* DELETE FROM mempool_txs WHERE tx_hash = ..., for each included hash
EvictEverything(m, hashes) == {}
EvictMempoolOnInclusion(m, hashes) == m \ hashes

\* INSERT INTO mempool_txs for every tx recorded at block_height
RequeueNothing(m, t, height) == m
RequeueMempoolFromBlock(m, t, height) == m \cup {x \in DOMAIN t : t[x] = height}

\* INSERT INTO chain_tips ... ON CONFLICT (height) DO UPDATE
RecordTip(tp, height, hash, prev) ==
    [x \in DOMAIN tp \cup {height} |->
        IF x = height THEN [hash |-> hash, prev_hash |-> prev] ELSE tp[x]]

\* UPDATE blocks SET confirmations, is_final WHERE height = $1
UpdateBlockConfirmations(b, height, conf, fin) ==
    [x \in DOMAIN b |->
        IF x = height THEN [b[x] EXCEPT !.confirmations = conf, !.is_final = fin] ELSE b[x]]

\* a refresh that counts one more confirmation on every call
RefreshConfirmationsBump(b, start_height, tip, finalized) ==
    [x \in DOMAIN b |->
        IF x <= tip THEN [b[x] EXCEPT !.confirmations = b[x].confirmations + 1] ELSE b[x]]
\* the window UPDATE, then the forced is_final = true for height <= finalized
RefreshConfirmations(b, start_height, tip, finalized) ==
    LET start == Max(Min(start_height, tip), 0)
        w == [x \in DOMAIN b |->
                IF x >= start /\ x <= tip
                  THEN [b[x] EXCEPT !.confirmations = Max(tip - x + 1, 0),
                                    !.is_final = (x <= finalized)]
                  ELSE b[x]]
    IN [x \in DOMAIN w |->
          IF x <= finalized /\ ~w[x].is_final THEN [w[x] EXCEPT !.is_final = TRUE] ELSE w[x]]

\* the value finalized_height takes in a freshly inserted checkpoint row
FinalizedDefault == 0
\* Checkpoint::set, first statement: INSERT (id, last_height) ... ON CONFLICT
\* DO UPDATE SET last_height
SetLast(c, last) ==
    [present |-> TRUE, last |-> last, fin |-> IF c.present THEN c.fin ELSE FinalizedDefault]
\* a second statement that writes nothing
SetFinalizedNoop(c, fin) == c
\* Checkpoint::set, second statement: UPDATE ... SET finalized_height WHERE id = 1
SetFinalized(c, fin) == IF c.present THEN [c EXCEPT !.fin = fin] ELSE c
\* Checkpoint::get_state: the row's pair, or (0, 0) when there is no row
GetState(c) == IF c.present THEN <<c.last, c.fin>> ELSE <<0, 0>>
\* Checkpoint::set run to completion
CheckpointSet(last, fin) == SetFinalized(SetLast(ckpt, last), fin)

\* ------------------------------------------------------------ reorg healer
\* the header walk of heal_reorg from h downwards; b holds a row at h
\* the scan without the depth cap
RECURSIVE HealLoopUncapped(_, _, _)
HealLoopUncapped(b, h, steps) ==
    IF DaemonHash(h) = b[h].hash THEN [res |-> "ok", fork |-> h + 1]
    ELSE IF ~HasBlock(b, h - 1) THEN [res |-> "no_block", fork |-> -1]
    ELSE HealLoopUncapped(b, h - 1, steps + 1)

RECURSIVE HealLoop(_, _, _)
HealLoop(b, h, steps) ==
    IF steps > FinalityWindow THEN [res |-> "too_deep", fork |-> -1]
    ELSE IF DaemonHash(h) = b[h].hash THEN [res |-> "ok", fork |-> h + 1]
    ELSE IF ~HasBlock(b, h - 1) THEN [res |-> "no_block", fork |-> -1]
    ELSE HealLoop(b, h - 1, steps + 1)

HealScan(b, start) ==
    IF ~HasBlock(b, start - 1) THEN [res |-> "no_block", fork |-> -1]
    ELSE HealLoop(b, start - 1, 0)

\* for height in fork_height..start_height: requeue_mempool_from_block
RECURSIVE HealRequeue(_, _, _, _)
HealRequeue(m, t, height, start) ==
    IF height >= start THEN m
    ELSE HealRequeue(RequeueMempoolFromBlock(m, t, height), t, height + 1, start)

\* DELETE FROM chain_tips WHERE height >= fork_height
HealTips(tp, fork) == Restrict(tp, {x \in DOMAIN tp : x < fork})
\* a delete that spares the fork height itself
HealBlocksNone(b, fork) == b
HealBlocksAbove(b, fork) == Restrict(b, {x \in DOMAIN b : x <= fork})
\* DELETE FROM blocks WHERE height >= fork_height
HealBlocks(b, fork) == Restrict(b, {x \in DOMAIN b : x < fork})
\* the cascade from blocks to txs of that delete
CascadeTxs(t, fork) == Restrict(t, {x \in DOMAIN t : t[x] < fork})

\* ------------------------------------------------------------ block worker
BlockQueueCap == BlockWorkers * 4
TxQueueCap == TxWorkers * 4

SchedNeverClosed == FALSE
SchedClosed == sPc = "done"
BlockClosed == \A w \in BlockWorkerIds : bw[w].pc \in {"done", "failed"}
TxClosed == \A w \in TxWorkerIds : tw[w].pc = "done"

\* the reorg check of process_height against the stored block at height - 1
ReorgDetected(b, header) ==
    /\ HasBlock(b, header.height - 1)
    /\ b[header.height - 1].hash # header.prev_hash

MakeBlockMsg(job, header) ==
    [height |-> job.height, hash |-> header.hash, prev_hash |-> header.prev_hash,
     tip |-> job.tip, fin |-> job.fin,
     tx_hashes |-> TxHashesOf(header.hash), miner_tx_hash |-> MinerTxOf(header.hash)]

BlockRecv(w) ==
    /\ bw[w].pc = "recv"
    /\ qSched # <<>>
    /\ bw' = [bw EXCEPT ![w] = [pc |-> "work", job |-> Head(qSched)]]
    /\ qSched' = Tail(qSched)
    /\ rpc' = {}
    /\ UNCHANGED <<auxVars, daemonVars, schedVars, qBlock, qTx, tw, pPc, pMsg,
                   storeVars, ckpt, watchVars, healVars>>

BlockExit(w) ==
    /\ bw[w].pc = "recv"
    /\ qSched = <<>>
    /\ SchedClosed
    /\ bw' = [bw EXCEPT ![w] = [pc |-> "done", job |-> NoMsg]]
    /\ rpc' = {}
    /\ UNCHANGED <<auxVars, daemonVars, schedVars, qSched, qBlock, qTx, tw, pPc, pMsg,
                   storeVars, ckpt, watchVars, healVars>>

\* process_height without a reorg: the BlockMsg is built and sent
BlockEmit(w) ==
    /\ bw[w].pc = "work"
    /\ LET header == DaemonHeader(bw[w].job.height)
       IN /\ ~ReorgDetected(blocks, header)
          /\ Len(qBlock) < BlockQueueCap
          /\ qBlock' = Append(qBlock, MakeBlockMsg(bw[w].job, header))
    /\ bw' = [bw EXCEPT ![w] = [pc |-> "recv", job |-> NoMsg]]
    /\ rpc' = HeaderRequests \cup BlockRequests
    /\ UNCHANGED <<auxVars, daemonVars, schedVars, qSched, qTx, tw, pPc, pMsg,
                   storeVars, ckpt, watchVars, healVars>>

\* process_height with a reorg: heal_reorg succeeds, the worker retries the height
BlockHeal(w) ==
    /\ bw[w].pc = "work"
    /\ LET header == DaemonHeader(bw[w].job.height)
           scan == HealScan(blocks, header.height)
       IN /\ ReorgDetected(blocks, header)
          /\ scan.res = "ok"
          /\ mempool' = HealRequeue(mempool, txs, scan.fork, header.height)
          /\ tips' = HealTips(tips, scan.fork)
          /\ blocks' = HealBlocks(blocks, scan.fork)
          /\ txs' = CascadeTxs(txs, scan.fork)
          /\ lastHeal' = [start |-> header.height, fork |-> scan.fork, res |-> "ok"]
    /\ healTick' = 1 - healTick
    /\ rpc' = HeaderRequests \cup HealRequests
    /\ UNCHANGED <<auxVars, daemonVars, schedVars, qSched, qBlock, qTx, bw, tw, pPc, pMsg,
                   ckpt, watchVars>>

\* process_height with a reorg: heal_reorg fails, the error ends the worker
BlockHealFail(w) ==
    /\ bw[w].pc = "work"
    /\ LET header == DaemonHeader(bw[w].job.height)
           scan == HealScan(blocks, header.height)
       IN /\ ReorgDetected(blocks, header)
          /\ scan.res # "ok"
          /\ lastHeal' = [start |-> header.height, fork |-> -1, res |-> scan.res]
    /\ healTick' = 1 - healTick
    /\ bw' = [bw EXCEPT ![w] = [pc |-> "failed", job |-> NoMsg]]
    /\ rpc' = HeaderRequests \cup HealRequests
    /\ UNCHANGED <<auxVars, daemonVars, schedVars, qSched, qBlock, qTx, tw, pPc, pMsg,
                   storeVars, ckpt, watchVars>>

\* --------------------------------------------------------------- tx worker
\* fetch_transactions: one (hash, json) pair per hash the daemon did not miss
FetchTransactions(hashes) == hashes

MakeTxMsg(job) ==
    [height |-> job.height, hash |-> job.hash, prev_hash |-> job.prev_hash,
     tip |-> job.tip, fin |-> job.fin,
     ordered_tx_hashes |-> FetchTransactions(job.tx_hashes),
     miner_tx_hash |-> job.miner_tx_hash]

TxRecv(w) ==
    /\ tw[w].pc = "recv"
    /\ qBlock # <<>>
    /\ tw' = [tw EXCEPT ![w] = [pc |-> "work", job |-> Head(qBlock)]]
    /\ qBlock' = Tail(qBlock)
    /\ rpc' = {}
    /\ UNCHANGED <<auxVars, daemonVars, schedVars, qSched, qTx, bw, pPc, pMsg,
                   storeVars, ckpt, watchVars, healVars>>

TxExit(w) ==
    /\ tw[w].pc = "recv"
    /\ qBlock = <<>>
    /\ BlockClosed
    /\ tw' = [tw EXCEPT ![w] = [pc |-> "done", job |-> NoMsg]]
    /\ rpc' = {}
    /\ UNCHANGED <<auxVars, daemonVars, schedVars, qSched, qBlock, qTx, bw, pPc, pMsg,
                   storeVars, ckpt, watchVars, healVars>>

TxEmit(w) ==
    /\ tw[w].pc = "work"
    /\ Len(qTx) < TxQueueCap
    /\ qTx' = Append(qTx, MakeTxMsg(tw[w].job))
    /\ tw' = [tw EXCEPT ![w] = [pc |-> "recv", job |-> NoMsg]]
    /\ rpc' = TxRequests
    /\ UNCHANGED <<auxVars, daemonVars, schedVars, qSched, qBlock, bw, pPc, pMsg,
                   storeVars, ckpt, watchVars, healVars>>

\* --------------------------------------------------------------- persister
\* prepare_block: the miner tx, then the fetched txs
PreparedHashes(msg) ==
    {msg.miner_tx_hash} \cup {msg.ordered_tx_hashes[i] : i \in DOMAIN msg.ordered_tx_hashes}

\* a window one height too short
WindowStartShort(tip) == Max(tip - WindowExtra, 0)
\* the confirmation window start of persist_block
WindowStart(tip) == Max(tip - (Max(FinalityWindow, 1) + WindowExtra), 0)

\* persist_block up to the commit of the block's SQL transaction
PersistCommit ==
    /\ pPc = "recv"
    /\ qTx # <<>>
    /\ LET msg == Head(qTx)
           h == msg.height
           b1 == InsertBlock(blocks, h, msg.hash, msg.prev_hash)
       IN /\ blocks' = UpdateBlockConfirmations(b1, h, msg.tip - h + 1, h <= msg.fin)
          /\ txs' = InsertTxs(txs, PreparedHashes(msg), h)
          /\ mempool' = EvictMempoolOnInclusion(mempool, PreparedHashes(msg))
          /\ tips' = RecordTip(tips, h, msg.hash, msg.prev_hash)
          /\ pMsg' = msg
    /\ qTx' = Tail(qTx)
    /\ pPc' = "commit"
    /\ rpc' = {}
    /\ UNCHANGED <<auxVars, daemonVars, schedVars, qSched, qBlock, bw, tw, ckpt, watchVars, healVars>>

\* persist_block after the commit: the checkpoint, then the confirmation window
PersistFinish ==
    /\ pPc = "commit"
    /\ ckpt' = CheckpointSet(pMsg.height, pMsg.fin)
    /\ blocks' = RefreshConfirmations(blocks, WindowStart(pMsg.tip), pMsg.tip, pMsg.fin)
    /\ pMsg' = NoMsg
    /\ pPc' = "recv"
    /\ rpc' = {}
    /\ UNCHANGED <<auxVars, daemonVars, schedVars, qSched, qBlock, qTx, bw, tw,
                   tips, txs, mempool, watchVars, healVars>>

\* the tables as the open transaction sees them after its first k writes:
\* insert_block, insert_tx for each tx, evict_mempool_on_inclusion, record_tip,
\* upsert_soft_facts_for_block (no modelled table), update_block_confirmations_tx
TxnWrites == 6
TxnAfter(s, msg, k) ==
    LET h == msg.height
        s1 == IF k >= 1 THEN [s EXCEPT !.blocks = InsertBlock(s.blocks, h, msg.hash, msg.prev_hash)]
              ELSE s
        s2 == IF k >= 2 THEN [s1 EXCEPT !.txs = InsertTxs(s1.txs, PreparedHashes(msg), h)] ELSE s1
        s3 == IF k >= 3
              THEN [s2 EXCEPT !.mempool = EvictMempoolOnInclusion(s2.mempool, PreparedHashes(msg))]
              ELSE s2
        s4 == IF k >= 4 THEN [s3 EXCEPT !.tips = RecordTip(s3.tips, h, msg.hash, msg.prev_hash)]
              ELSE s3
    IN IF k >= 6
       THEN [s4 EXCEPT !.blocks = UpdateBlockConfirmations(s4.blocks, h, msg.tip - h + 1, h <= msg.fin)]
       ELSE s4

\* a transaction dropped with its writes left in place
RollbackKeepsWrites(before, working) == working
\* db_tx dropped without commit: the store is as before begin_block
Rollback(before, working) == before

\* persist_block: the write numbered k fails, `?` returns the error out of
\* persist_block and run, and db_tx is dropped
PersistFail ==
    /\ pPc = "recv"
    /\ qTx # <<>>
    /\ \E k \in 1..TxnWrites :
         LET msg == Head(qTx)
             before == [blocks |-> blocks, txs |-> txs, mempool |-> mempool, tips |-> tips]
             after == Rollback(before, TxnAfter(before, msg, k - 1))
         IN /\ blocks' = after.blocks
            /\ txs' = after.txs
            /\ mempool' = after.mempool
            /\ tips' = after.tips
            /\ pMsg' = msg
    /\ qTx' = Tail(qTx)
    /\ pPc' = "failed"
    /\ rpc' = {}
    /\ UNCHANGED <<auxVars, daemonVars, schedVars, qSched, qBlock, bw, tw, ckpt, watchVars, healVars>>

PersistExit ==
    /\ pPc = "recv"
    /\ qTx = <<>>
    /\ TxClosed
    /\ pPc' = "done"
    /\ rpc' = {}
    /\ UNCHANGED <<auxVars, daemonVars, schedVars, qSched, qBlock, qTx, bw, tw, pMsg,
                   storeVars, ckpt, watchVars, healVars>>

\* ---------------------------------------------------------- mempool watcher
\* refresh_from_pool: the pool_hashes() call; an empty pool returns at once
WatcherPoll ==
    /\ wPc = "idle"
    /\ wSnap' = DaemonPool
    /\ wPc' = IF DaemonPool = {} THEN "idle" ELSE "upsert"
    /\ rpc' = PoolRequests
    /\ UNCHANGED <<auxVars, daemonVars, schedVars, qSched, qBlock, qTx, bw, tw, pPc, pMsg,
                   storeVars, ckpt, healVars>>

\* a refresh that makes the table equal to the pool
ReplacePool(m, hashes) == hashes
\* INSERT INTO mempool_txs ... ON CONFLICT (tx_hash) DO UPDATE SET last_seen, per hash
UpsertPool(m, hashes) == m \cup hashes

\* refresh_from_pool: the SQL transaction upserting every hash of the snapshot
WatcherUpsert ==
    /\ wPc = "upsert"
    /\ mempool' = UpsertPool(mempool, wSnap)
    /\ wSnap' = {}
    /\ wPc' = "idle"
    /\ rpc' = {}
    /\ UNCHANGED <<auxVars, daemonVars, schedVars, qSched, qBlock, qTx, bw, tw, pPc, pMsg,
                   blocks, tips, txs, ckpt, healVars>>

\* ------------------------------------------------- sequential ingest loop
\* One iteration of the loop of bin/ingestor.rs in two steps: the tip poll and
\* header fetch, then the reorg check with either the heal or the block's persist.
SeqFetch ==
    /\ sPc = "poll"
    /\ sNext <= dTip
    /\ LET header == DaemonHeader(sNext)
       IN sMsg' = [height |-> sNext, hash |-> header.hash, prev_hash |-> header.prev_hash,
                   tip |-> dTip, fin |-> FinalizedOf(dTip),
                   ordered_tx_hashes |-> FetchTransactions(TxHashesOf(header.hash)),
                   miner_tx_hash |-> MinerTxOf(header.hash)]
    /\ sPc' = "process"
    /\ rpc' = TipRequests \cup HeaderRequests
    /\ UNCHANGED <<auxVars, sNext, sProcessed, daemonVars, pipeVars, storeVars, ckpt, watchVars, healVars>>

SeqHeal ==
    /\ sPc = "process"
    /\ LET scan == HealScan(blocks, sMsg.height)
       IN /\ ReorgDetected(blocks, sMsg)
          /\ scan.res = "ok"
          /\ mempool' = HealRequeue(mempool, txs, scan.fork, sMsg.height)
          /\ tips' = HealTips(tips, scan.fork)
          /\ blocks' = HealBlocks(blocks, scan.fork)
          /\ txs' = CascadeTxs(txs, scan.fork)
          /\ lastHeal' = [start |-> sMsg.height, fork |-> scan.fork, res |-> "ok"]
    /\ healTick' = 1 - healTick
    /\ sMsg' = NoMsg
    /\ sPc' = "poll"
    /\ rpc' = HealRequests
    /\ UNCHANGED <<auxVars, sNext, sProcessed, daemonVars, pipeVars, ckpt, watchVars>>

SeqHealFail ==
    /\ sPc = "process"
    /\ LET scan == HealScan(blocks, sMsg.height)
       IN /\ ReorgDetected(blocks, sMsg)
          /\ scan.res # "ok"
          /\ lastHeal' = [start |-> sMsg.height, fork |-> -1, res |-> scan.res]
    /\ healTick' = 1 - healTick
    /\ sMsg' = NoMsg
    /\ sPc' = "failed"
    /\ rpc' = HealRequests
    /\ UNCHANGED <<auxVars, sNext, sProcessed, daemonVars, pipeVars, storeVars, ckpt, watchVars>>

SeqPersist ==
    /\ sPc = "process"
    /\ ~ReorgDetected(blocks, sMsg)
    /\ LET h == sMsg.height
           b1 == InsertBlock(blocks, h, sMsg.hash, sMsg.prev_hash)
           b2 == UpdateBlockConfirmations(b1, h, sMsg.tip - h + 1, h <= sMsg.fin)
       IN /\ blocks' = RefreshConfirmations(b2, WindowStart(sMsg.tip), sMsg.tip, sMsg.fin)
          /\ txs' = InsertTxs(txs, PreparedHashes(sMsg), h)
          /\ mempool' = EvictMempoolOnInclusion(mempool, PreparedHashes(sMsg))
          /\ tips' = RecordTip(tips, h, sMsg.hash, sMsg.prev_hash)
          /\ ckpt' = CheckpointSet(h, sMsg.fin)
    /\ sNext' = sNext + 1
    /\ sProcessed' = sProcessed + 1
    /\ sMsg' = NoMsg
    /\ sPc' = "poll"
    /\ rpc' = BlockRequests \cup TxRequests
    /\ UNCHANGED <<auxVars, daemonVars, pipeVars, watchVars, healVars>>

\* ---------------------------------------------------- fetch_txs_adaptive
MinChunk == 10
MaxChunk == 300
ChunkStep == 10
\* the JSON the daemon holds for the hash at an index
JsonOf(h) == <<"json", h>>
\* the daemon's answer for hashes[lo..hi]: missed_tx for more than k hashes,
\* else one JSON per requested hash in request order
GetTransactions(lo, hi, k) ==
    IF hi - lo > k THEN [missed |-> TRUE, txs |-> <<>>]
    ELSE [missed |-> FALSE, txs |-> [j \in 1..(hi - lo) |-> JsonOf(lo + j)]]

\* a retry that also moves past the refused chunk
FetchOnMissedSkip(f, end) ==
    [f EXCEPT !.chunk = Max(f.chunk \div 2, MinChunk), !.i = end,
              !.last = end - f.i, !.missed = TRUE, !.tick = 1 - f.tick]
\* chunk = (chunk / 2).max(10); continue
FetchOnMissed(f, end) ==
    [f EXCEPT !.chunk = Max(f.chunk \div 2, MinChunk),
              !.last = end - f.i, !.missed = TRUE, !.tick = 1 - f.tick]
\* out.extend(txs_as_json); i = end; if chunk < 300 { chunk += 10 }
FetchOnOk(f, end, jsons) ==
    [f EXCEPT !.out = f.out \o jsons, !.i = end,
              !.chunk = IF f.chunk < MaxChunk THEN f.chunk + ChunkStep ELSE f.chunk,
              !.last = end - f.i, !.tick = 1 - f.tick]

\* one pass of the while loop: the request for hashes[i..end] and its outcome
FetchRequest ==
    /\ fetch.pc = "loop"
    /\ fetch.i < fetch.n
    /\ LET end == Min(fetch.i + fetch.chunk, fetch.n)
           res == GetTransactions(fetch.i, end, fetch.k)
       IN fetch' = IF res.missed THEN FetchOnMissed(fetch, end)
                   ELSE FetchOnOk(fetch, end, res.txs)
    /\ rpc' = {Req("get_transactions", TRUE)}
    /\ UNCHANGED <<daemonVars, schedVars, pipeVars, storeVars, ckpt, watchVars, healVars,
                   cp, shutdown, rest, sStart, moreVars>>

\* the loop condition fails: Ok(out)
FetchReturn ==
    /\ fetch.pc = "loop"
    /\ fetch.i >= fetch.n
    /\ fetch' = [fetch EXCEPT !.pc = "done"]
    /\ rpc' = {}
    /\ UNCHANGED <<daemonVars, schedVars, pipeVars, storeVars, ckpt, watchVars, healVars,
                   cp, shutdown, rest, sStart, moreVars>>

\* ------------------------------------------------- checkpoint set and get
\* the pairs handed to Checkpoint::set
CpPairs == {p \in (1..MaxTip) \X (0..MaxTip) : p[2] <= p[1]}
NoRead == [val |-> <<-1, -1>>, mid |-> FALSE, before |-> <<-1, -1>>,
           arg |-> <<-1, -1>>, expect |-> <<-1, -1>>]

\* Checkpoint::set up to the end of its first statement
CpSetLast ==
    /\ cp.pc = "idle"
    /\ \E a \in CpPairs :
         /\ ckpt' = SetLast(ckpt, a[1])
         /\ cp' = [cp EXCEPT !.pc = "mid", !.arg = a, !.before = GetState(ckpt)]
    /\ rpc' = {}
    /\ UNCHANGED <<daemonVars, schedVars, pipeVars, storeVars, watchVars, healVars,
                   fetch, shutdown, rest, sStart, moreVars>>

\* Checkpoint::set, its second statement and return
CpSetFinalized ==
    /\ cp.pc = "mid"
    /\ ckpt' = SetFinalized(ckpt, cp.arg[2])
    /\ cp' = [cp EXCEPT !.pc = "idle", !.done = cp.arg]
    /\ rpc' = {}
    /\ UNCHANGED <<daemonVars, schedVars, pipeVars, storeVars, watchVars, healVars,
                   fetch, shutdown, rest, sStart, moreVars>>

\* Checkpoint::get_state from another task, at any moment
CpGetState ==
    /\ cp.pc \in {"idle", "mid"}
    /\ cp' = [cp EXCEPT !.read = [val |-> GetState(ckpt), mid |-> (cp.pc = "mid"),
                                  before |-> cp.before, arg |-> cp.arg, expect |-> cp.done]]
    /\ rpc' = {}
    /\ UNCHANGED <<daemonVars, schedVars, pipeVars, storeVars, ckpt, watchVars, healVars,
                   fetch, shutdown, rest, sStart, moreVars>>

\* ------------------------------------------------------- REST calls
\* StatusCode::is_success
IsSuccess(code) == code >= 200 /\ code <= 299
\* Rpc::get_transactions: bail on a non-2xx code, else the decoded body as it is
RestGetTransactions(resp) ==
    IF ~IsSuccess(resp.http) THEN [ok |-> FALSE, items |-> 0]
    ELSE IF ~resp.decodes THEN [ok |-> FALSE, items |-> 0]
    ELSE [ok |-> TRUE, items |-> resp.items]
\* Rpc::get_transaction_pool_hashes: decode, bail on a non-2xx code, then
\* Ok(tx_hashes) only for status "OK"
RestPoolHashes(resp) ==
    IF ~resp.decodes THEN [ok |-> FALSE, items |-> 0]
    ELSE IF ~IsSuccess(resp.http) THEN [ok |-> FALSE, items |-> 0]
    ELSE IF resp.status = "OK" THEN [ok |-> TRUE, items |-> resp.items]
    ELSE [ok |-> FALSE, items |-> 0]

\* the responses a daemon may give to a REST call
RestResponses ==
    [http : {200, 204, 301, 404, 500}, status : {"OK", "BUSY", "Failed", ""},
     decodes : BOOLEAN, items : 0..2]

\* the client returns from the REST call with what it made of the response
RestReturn ==
    /\ rest.pc = "sent"
    /\ rest' = [rest EXCEPT !.pc = "returned",
                            !.result = IF rest.call = "get_transactions"
                                         THEN RestGetTransactions(rest.resp)
                                         ELSE RestPoolHashes(rest.resp)]
    /\ rpc' = {}
    /\ UNCHANGED <<daemonVars, schedVars, pipeVars, storeVars, ckpt, watchVars, healVars,
                   fetch, cp, shutdown, sStart, moreVars>>

\* ------------------------------------------------------ analytics backfill
\* blocks with analytics_pending = TRUE only
NeedsBackfillPendingOnly(t) == t.pending
\* WHERE b.analytics_pending = TRUE OR s.block_height IS NULL
NeedsBackfill(t) == {h \in t.blocks : h \in t.pending \/ h \notin t.sf}
\* ORDER BY b.height ASC LIMIT k
RECURSIVE TakeLowest(_, _)
TakeLowest(S, k) ==
    IF k = 0 \/ S = {} THEN <<>>
    ELSE LET lo == CHOOSE x \in S : \A y \in S : x <= y
         IN <<lo>> \o TakeLowest(S \ {lo}, k - 1)

\* the SELECT of one pass, and the break when it returns no height
BackfillSelect ==
    /\ bf.pc = "select"
    /\ LET heights == TakeLowest(NeedsBackfill(bf), bf.batch)
       IN bf' = IF heights = <<>> THEN [bf EXCEPT !.pc = "done"]
                ELSE [bf EXCEPT !.pc = "apply", !.sel = heights]
    /\ rpc' = {}
    /\ UNCHANGED <<daemonVars, schedVars, pipeVars, storeVars, ckpt, watchVars, healVars,
                   fetch, cp, shutdown, rest, sStart, ev, px, lim, tf, lateVars>>

\* the transaction of one pass: for each selected height the soft_facts upsert
\* and analytics_pending = FALSE, counting it
BackfillApply ==
    /\ bf.pc = "apply"
    /\ LET hs == {bf.sel[i] : i \in DOMAIN bf.sel}
       IN bf' = [bf EXCEPT !.pc = "select", !.sel = <<>>,
                           !.sf = bf.sf \cup (hs \cap bf.blocks),
                           !.pending = bf.pending \ hs,
                           !.done = bf.done + Len(bf.sel)]
    /\ rpc' = {}
    /\ UNCHANGED <<daemonVars, schedVars, pipeVars, storeVars, ckpt, watchVars, healVars,
                   fetch, cp, shutdown, rest, sStart, ev, px, lim, tf, lateVars>>

\* ------------------------------------------- mempool eviction and requeue
\* the transaction hashes of the blocks at heights 1..EvHeights
EvHashes == {<<k, h, 0>> : k \in {"m", "t"}, h \in 1..EvHeights}

\* Store::evict_mempool_on_inclusion(tx, hashes) inside a transaction
EvictCall ==
    /\ ev.pc = "none"
    /\ \E hashes \in SUBSET EvHashes :
         /\ mempool' = EvictMempoolOnInclusion(mempool, hashes)
         /\ ev' = [pc |-> "evicted", before |-> mempool, hashes |-> hashes, height |-> 0]
    /\ rpc' = {}
    /\ UNCHANGED <<daemonVars, schedVars, pipeVars, blocks, tips, txs, ckpt, watchVars,
                   healVars, fetch, cp, shutdown, rest, sStart, bf, px, lim, tf, lateVars>>

\* Store::requeue_mempool_from_block(tx, height) following the eviction
RequeueCall ==
    /\ ev.pc = "evicted"
    /\ \E h \in 1..EvHeights :
         /\ mempool' = RequeueMempoolFromBlock(mempool, txs, h)
         /\ ev' = [ev EXCEPT !.pc = "requeued", !.height = h]
    /\ rpc' = {}
    /\ UNCHANGED <<daemonVars, schedVars, pipeVars, blocks, tips, txs, ckpt, watchVars,
                   healVars, fetch, cp, shutdown, rest, sStart, bf, px, lim, tf, lateVars>>

\* ------------------------------------------------------- tx-extra parser
\* hex::encode / hex::decode over sequences of hex digits 0..15
HexEncode(bytes) ==
    [k \in 1..(2 * Len(bytes)) |->
        IF k % 2 = 1 THEN bytes[(k + 1) \div 2] \div 16 ELSE bytes[k \div 2] % 16]

HexDecodePairs(digits) ==
    [k \in 1..(Len(digits) \div 2) |-> 16 * digits[2 * k - 1] + digits[2 * k]]

HexDecode(digits) ==
    IF Len(digits) % 2 = 1 \/ \E k \in DOMAIN digits : digits[k] \notin 0..15
    THEN [ok |-> FALSE, bytes |-> <<>>]
    ELSE [ok |-> TRUE, bytes |-> HexDecodePairs(digits)]

PubKeyLen == 32
PubKey(pk) == [kind |-> "PubKey", pk |-> pk]
Nonce(b) == [kind |-> "Nonce", bytes |-> b]
AdditionalPubKeys(count) == [kind |-> "AdditionalPubKeys", count |-> count]
Unknown(tag, len) == [kind |-> "Unknown", tag |-> tag, len |-> len]

\* bytes[i..i + n] with the code's 0-based i
Slice(bytes, i, n) == SubSeq(bytes, i + 1, i + n)

\* the break on a field that runs past the end of the input
TruncatedOffByOne(i, n, total) == i + n >= total
Truncated(i, n, total) == i + n > total

\* the while loop of parse_tx_extra at offset i with the tags pushed so far
RECURSIVE ParseLoop(_, _, _)
ParseLoop(bytes, i, tags) ==
    IF ~(i < Len(bytes)) THEN tags
    ELSE
      LET tag == bytes[i + 1]
          j == i + 1
          len == bytes[j + 1]
          k == j + 1
      IN CASE tag = 0 -> ParseLoop(bytes, j, tags)
           [] tag = 1 ->
                IF Truncated(j, PubKeyLen, Len(bytes)) THEN tags
                ELSE ParseLoop(bytes, j + PubKeyLen,
                               Append(tags, PubKey(HexEncode(Slice(bytes, j, PubKeyLen)))))
           [] tag = 2 ->
                IF j >= Len(bytes) THEN tags
                ELSE IF Truncated(k, len, Len(bytes)) THEN tags
                ELSE ParseLoop(bytes, k + len, Append(tags, Nonce(Slice(bytes, k, len))))
           [] tag = 4 ->
                IF j >= Len(bytes) THEN tags
                ELSE IF Truncated(k, len, Len(bytes)) THEN tags
                ELSE ParseLoop(bytes, k + len,
                               Append(tags, AdditionalPubKeys(len \div PubKeyLen)))
           [] OTHER ->
                IF j < Len(bytes)
                THEN IF Truncated(k, len, Len(bytes)) THEN tags
                     ELSE ParseLoop(bytes, k + len, Append(tags, Unknown(tag, len)))
                ELSE Append(tags, Unknown(tag, 0))

ParseTxExtra(hexStr) ==
    LET d == HexDecode(hexStr)
    IN IF d.ok THEN [ok |-> TRUE, tags |-> ParseLoop(d.bytes, 0, <<>>)]
       ELSE [ok |-> FALSE, tags |-> <<>>]

\* the fields an extra blob is built from: padding, a public key, the nonce
\* de ad be ef, two additional public keys, and an unknown 0xff blob of one byte
FieldKinds == {"pad", "pubkey", "nonce", "additional", "unknown"}
Fill(n, b) == [x \in 1..n |-> b]
FieldBytes(f) ==
    CASE f = "pad" -> <<0>>
      [] f = "pubkey" -> <<1>> \o Fill(32, 170)
      [] f = "nonce" -> <<2, 4, 222, 173, 190, 239>>
      [] f = "additional" -> <<4, 64>> \o Fill(64, 187)
      [] f = "unknown" -> <<255, 1, 0>>

RECURSIVE FieldsBytes(_)
FieldsBytes(fs) == IF fs = <<>> THEN <<>> ELSE FieldBytes(Head(fs)) \o FieldsBytes(Tail(fs))

\* parse_tx_extra(hex_str)
ParseCall ==
    /\ px.pc = "input"
    /\ px' = [px EXCEPT !.pc = "returned", !.res = ParseTxExtra(px.hex)]
    /\ rpc' = {}
    /\ UNCHANGED <<daemonVars, schedVars, pipeVars, storeVars, ckpt, watchVars, healVars,
                   fetch, cp, shutdown, rest, sStart, bf, ev, lim, tf, lateVars>>

\* ------------------------------------------------------------------ limits
\* f32 arithmetic on values held in half units (x2 = 2 * value): the spacing
\* of the 24-bit significand at x2, and round-to-nearest, ties to even
F32Exact == 16777216
RECURSIVE Ulp2(_)
Ulp2(x2) == IF x2 < F32Exact THEN 1 ELSE 2 * Ulp2(x2 \div 2)

RoundTiesEven(x, s) ==
    LET q == x \div s
        r == x % s
    IN IF 2 * r < s THEN q * s
       ELSE IF 2 * r > s THEN (q + 1) * s
       ELSE IF q % 2 = 0 THEN q * s ELSE (q + 1) * s

F32(x2) == RoundTiesEven(x2, Ulp2(x2))

\* ((rps as f32) * 2.5).ceil() as u32, for rps far below the u32 range
ScaleRate(rps) ==
    LET asF32 == F32(2 * rps)
        product == F32((5 * asF32) \div 2)
    IN (product + 1) \div 2

\* make_limiter: the burst size of Quota::per_second
EffRate(rps, bootstrap) == IF bootstrap THEN ScaleRate(rps) ELSE rps
QuotaOf(rps, bootstrap) == Max(EffRate(rps, bootstrap), 1)

EffConcurrency(base, bootstrap) == IF bootstrap THEN Max(base * 2, base + 4) ELSE base

\* rates at which the f32 product is no longer exact
LargeRates == {3355443, 3355445, 16777217}

\* make_limiter(rps, bootstrap) and eff_concurrency(base, bootstrap) at start-up
LimitsMake ==
    /\ lim.pc = "config"
    /\ lim' = [lim EXCEPT !.pc = "made",
                          !.quota = QuotaOf(lim.rps, lim.bootstrap),
                          !.conc = EffConcurrency(lim.base, lim.bootstrap)]
    /\ rpc' = {}
    /\ UNCHANGED <<daemonVars, schedVars, pipeVars, storeVars, ckpt, watchVars, healVars,
                   fetch, cp, shutdown, rest, sStart, bf, ev, px, tf, lateVars>>

\* limiter.check_n(n) on the fresh limiter: a burst of n cells
LimitsCheckN ==
    /\ lim.pc = "made"
    /\ \E n \in {lim.quota, lim.quota + 1} :
         lim' = [lim EXCEPT !.pc = "checked", !.n = n, !.admitted = (n <= lim.quota)]
    /\ rpc' = {}
    /\ UNCHANGED <<daemonVars, schedVars, pipeVars, storeVars, ckpt, watchVars, healVars,
                   fetch, cp, shutdown, rest, sStart, bf, ev, px, tf, lateVars>>

\* ------------------------------------------- tx worker: fetch_transactions
\* hashes.chunks(100)
TxChunk == 100
\* tx_hashes of a block are 1..n in block order; numbers of hashes around the
\* chunk boundaries
TxCounts ==
    {0, 1} \cup {k * TxChunk : k \in 1..MaxTxChunks} \cup {k * TxChunk + 1 : k \in 1..(MaxTxChunks - 1)}
NChunks(n) == (n + TxChunk - 1) \div TxChunk
ChunkOf(n, c) == [j \in 1..(Min(c * TxChunk, n) - (c - 1) * TxChunk) |-> (c - 1) * TxChunk + j]

\* what the daemon may answer to get_transactions(chunk): every JSON; the
\* first hash in missed_tx and the other JSONs; one JSON short with nothing
\* missed; or an error
ResponseKinds == {"all", "missed", "short", "error"}
TxResponse(chunk, kind) ==
    LET jsons == [j \in DOMAIN chunk |-> JsonOf(chunk[j])]
    IN CASE kind = "all" -> [ok |-> TRUE, missed_tx |-> {}, txs_as_json |-> jsons]
         [] kind = "missed" -> [ok |-> TRUE, missed_tx |-> {chunk[1]}, txs_as_json |-> Tail(jsons)]
         [] kind = "short" -> [ok |-> TRUE, missed_tx |-> {},
                               txs_as_json |-> SubSeq(jsons, 1, Len(jsons) - 1)]
         [] kind = "error" -> [ok |-> FALSE, missed_tx |-> {}, txs_as_json |-> <<>>]

\* the body of one chunk's future: skip the missed hashes, pair the others
\* with the JSONs in turn, fail when the JSONs run out
PairChunk(chunk, res) ==
    LET Kept(h) == h \notin res.missed_tx
        kept == SelectSeq(chunk, Kept)
    IN IF ~res.ok \/ Len(res.txs_as_json) < Len(kept)
       THEN [ok |-> FALSE, paired |-> <<>>]
       ELSE [ok |-> TRUE, paired |-> [j \in DOMAIN kept |-> <<kept[j], res.txs_as_json[j]>>]]

\* buffer_unordered(limit) polls the next chunk's future while fewer than
\* limit are in flight: limiter.until_ready, then get_transactions
TxFetchStart ==
    /\ tf.pc = "fetch"
    /\ tf.next <= NChunks(tf.n)
    /\ Cardinality(tf.inflight) < Max(tf.conc, 1)
    /\ tf' = [tf EXCEPT !.inflight = tf.inflight \cup {tf.next}, !.next = tf.next + 1]
    /\ rpc' = TxRequests
    /\ UNCHANGED <<daemonVars, schedVars, pipeVars, storeVars, ckpt, watchVars, healVars,
                   fetch, cp, shutdown, rest, sStart, bf, ev, px, lim, lateVars>>

\* any future in flight completes; try_fold extends acc with its batch, or
\* stops at its error, which run returns with `?`
TxFetchComplete ==
    /\ tf.pc = "fetch"
    /\ \E c \in tf.inflight : \E kind \in ResponseKinds :
         LET batch == PairChunk(ChunkOf(tf.n, c), TxResponse(ChunkOf(tf.n, c), kind))
         IN tf' = IF batch.ok
                  THEN [tf EXCEPT !.inflight = tf.inflight \ {c},
                                  !.acc = tf.acc \o batch.paired,
                                  !.skipped = tf.skipped \/ kind = "missed"]
                  ELSE [tf EXCEPT !.pc = "failed", !.inflight = {}]
    /\ rpc' = {}
    /\ UNCHANGED <<daemonVars, schedVars, pipeVars, storeVars, ckpt, watchVars, healVars,
                   fetch, cp, shutdown, rest, sStart, bf, ev, px, lim, lateVars>>

\* the stream is exhausted: run builds the TxMsg from the pairs and sends it
TxFetchEmit ==
    /\ tf.pc = "fetch"
    /\ tf.next > NChunks(tf.n)
    /\ tf.inflight = {}
    /\ tf' = [tf EXCEPT !.pc = "sent",
                        !.msg = [ordered_tx_hashes |-> [j \in DOMAIN tf.acc |-> tf.acc[j][1]],
                                 tx_jsons |-> [j \in DOMAIN tf.acc |-> tf.acc[j][2]]]]
    /\ rpc' = {}
    /\ UNCHANGED <<daemonVars, schedVars, pipeVars, storeVars, ckpt, watchVars, healVars,
                   fetch, cp, shutdown, rest, sStart, bf, ev, px, lim, lateVars>>

\* ------------------------------------------------ persist_block as a whole
\* the store after persist_block(msg): the committed transaction, then
\* Checkpoint::set, then refresh_confirmations
PersistBlock(s, msg) ==
    LET c == TxnAfter(s, msg, TxnWrites)
    IN [c EXCEPT !.ckpt = SetFinalized(SetLast(c.ckpt, msg.height), msg.fin),
                 !.blocks = RefreshConfirmations(c.blocks, WindowStart(msg.tip), msg.tip, msg.fin)]

StoreNow == [blocks |-> blocks, txs |-> txs, mempool |-> mempool, tips |-> tips, ckpt |-> ckpt]

\* persist_block(msg) on the store as it is
RepersistCall ==
    /\ rp.pc \in {"msg", "once"}
    /\ LET after == PersistBlock(StoreNow, rp.msg)
       IN /\ blocks' = after.blocks /\ txs' = after.txs /\ mempool' = after.mempool
          /\ tips' = after.tips /\ ckpt' = after.ckpt
          /\ rp' = IF rp.pc = "msg" THEN [rp EXCEPT !.pc = "once", !.once = after]
                   ELSE [rp EXCEPT !.pc = "twice"]
    /\ rpc' = {}
    /\ UNCHANGED <<daemonVars, schedVars, pipeVars, watchVars, healVars,
                   fetch, cp, shutdown, rest, sStart, bf, ev, px, lim, tf, hf, wl, pq>>

\* ----------------------------------------------------------- HeaderFetcher
\* take_buffered: drop the headers below height, then pop the front if it is
\* the requested one
DropBelow(buf, height) == SelectSeq(buf, LAMBDA x : x >= height)
TakeBuffered(buf, height) ==
    LET kept == DropBelow(buf, height)
    IN IF kept # <<>> /\ Head(kept) = height
       THEN [found |-> TRUE, buffered |-> Tail(kept)]
       ELSE [found |-> FALSE, buffered |-> kept]

\* what get_block_headers_range(start, end) may answer: every header of the
\* range, a batch that lacks the first height, or an error
RangeKinds == {"full", "lacking", "error"}
RangeResponse(start, end, kind) ==
    CASE kind = "full" -> [ok |-> TRUE, headers |-> [j \in 1..(end - start + 1) |-> start + j - 1]]
      [] kind = "lacking" -> [ok |-> TRUE, headers |-> [j \in 1..(end - start) |-> start + j]]
      [] kind = "error" -> [ok |-> FALSE, headers |-> <<>>]

\* a fallback that clears the buffer and leaves the mode as it was
DowngradeBufferOnly(f) == [f EXCEPT !.buffered = <<>>]
\* self.use_range = false; self.buffered.clear()
Downgrade(f) == [f EXCEPT !.use_range = FALSE, !.buffered = <<>>]

\* fetch_single: get_block_header_by_height, its error returned by fetch
FetchSingle(f, height, singleOk, sent) ==
    [f EXCEPT !.pc = IF singleOk THEN "ready" ELSE "failed",
              !.reqs = Append(sent, "get_block_header_by_height"),
              !.last = height]

\* HeaderFetcher::fetch(height) as one step, with the requests it sent
HeaderFetch(f, height, kind, singleOk) ==
    IF ~f.use_range THEN FetchSingle(f, height, singleOk, <<>>)
    ELSE
      LET t1 == TakeBuffered(f.buffered, height)
          res == RangeResponse(height, height + (f.batch - 1), kind)
          t2 == TakeBuffered(res.headers, height)
      IN IF t1.found
         THEN [f EXCEPT !.buffered = t1.buffered, !.reqs = <<>>, !.last = height]
         ELSE IF res.ok /\ t2.found
         THEN [f EXCEPT !.buffered = t2.buffered, !.reqs = <<"get_block_headers_range">>,
                        !.last = height]
         ELSE FetchSingle([Downgrade(f) EXCEPT !.fellBack = TRUE], height, singleOk,
                          <<"get_block_headers_range">>)

HeaderFetchCall ==
    /\ hf.pc = "ready"
    /\ \E height \in (hf.last + 1)..HfHeights : \E kind \in RangeKinds : \E singleOk \in BOOLEAN :
         hf' = [HeaderFetch(hf, height, kind, singleOk) EXCEPT !.before = hf.fellBack]
    /\ rpc' = {}
    /\ UNCHANGED <<daemonVars, schedVars, pipeVars, storeVars, ckpt, watchVars, healVars,
                   fetch, cp, shutdown, rest, sStart, bf, ev, px, lim, tf, rp, wl, pq>>

\* ------------------------------------------- mempool watcher receive loop
PoolHashes == {<<"t", h, 0>> : h \in 1..PoolTxs}
\* what recv_multipart returns: a frame with a topic, EAGAIN after the
\* receive timeout, or another transport error
RecvEvents == {"raw_tx", "raw_block", "other_topic", "timeout", "error"}
\* how a refresh_from_pool call ends
RefreshOutcomes == {"ok", "rpc_error", "db_error"}

\* refresh_from_pool: the pool hashes, then one transaction of upserts; an
\* error of the request or of a statement leaves the table as it was
RefreshFromPool(m, pool, outcome) ==
    IF outcome # "ok" \/ pool = {} THEN m ELSE UpsertPool(m, pool)

\* a loop that gives up when a refresh fails
NextPcFatal(outcome) == IF outcome = "ok" THEN "recv" ELSE "exited"
\* the Err of refresh_from_pool is logged and the loop goes on
NextPc(outcome) == "recv"

\* run up to the loop: socket, connect and subscribe return their error with
\* `?`; the initial refresh only logs its error
WatchSetup ==
    /\ wl.pc = "setup"
    /\ \/ /\ wl' = [wl EXCEPT !.pc = "exited"]
          /\ UNCHANGED mempool
          /\ rpc' = {}
       \/ \E pool \in SUBSET PoolHashes : \E outcome \in RefreshOutcomes :
            /\ mempool' = RefreshFromPool(mempool, pool, outcome)
            /\ wl' = [wl EXCEPT !.pc = NextPc(outcome), !.up = TRUE, !.event = "start",
                                !.refreshed = TRUE, !.outcome = outcome, !.pool = pool,
                                !.before = mempool,
                                !.failed = (outcome # "ok")]
            /\ rpc' = PoolRequests
    /\ UNCHANGED <<daemonVars, schedVars, pipeVars, blocks, tips, txs, ckpt, watchVars, healVars,
                   fetch, cp, shutdown, rest, sStart, bf, ev, px, lim, tf, rp, hf, pq>>

\* one pass of the receive loop
WatchRecv ==
    /\ wl.pc = "recv"
    /\ \E event \in RecvEvents : \E pool \in SUBSET PoolHashes : \E outcome \in RefreshOutcomes :
         IF event \in {"raw_tx", "raw_block", "timeout"}
         THEN /\ mempool' = RefreshFromPool(mempool, pool, outcome)
              /\ wl' = [wl EXCEPT !.pc = NextPc(outcome), !.event = event, !.refreshed = TRUE,
                                  !.outcome = outcome, !.pool = pool, !.before = mempool,
                                  !.failed = (wl.failed \/ outcome # "ok")]
              /\ rpc' = PoolRequests
         ELSE /\ UNCHANGED mempool
              /\ wl' = [wl EXCEPT !.event = event, !.refreshed = FALSE, !.outcome = "none",
                                  !.pool = {}, !.before = mempool,
                                  !.failed = (wl.failed \/ event = "error")]
              /\ rpc' = {}
    /\ UNCHANGED <<daemonVars, schedVars, pipeVars, blocks, tips, txs, ckpt, watchVars, healVars,
                   fetch, cp, shutdown, rest, sStart, bf, ev, px, lim, tf, rp, hf, pq>>

\* --------------------------------------------- the bounded queues on their own
\* PipelineCfg: the sizes the three channels are built from
PipelineCfgs ==
    [sched_buffer : 1..MaxSchedBuffer, block_workers : 1..MaxBlockWorkers,
     tx_workers : 1..MaxTxWorkers]
\* make_channels: the capacity of each mpsc channel
MakeChannels(cfg) ==
    [sched |-> cfg.sched_buffer, block |-> cfg.block_workers * 4, tx |-> cfg.tx_workers * 4]
\* everything the stages of a pipeline can hold at once
PipelineRoom(cfg) ==
    cfg.sched_buffer + cfg.block_workers + cfg.block_workers * 4
        + cfg.tx_workers + cfg.tx_workers * 4
\* the highest tip: more heights than a pipeline of single workers can hold
QHeights ==
    PipelineRoom([sched_buffer |-> MaxSchedBuffer, block_workers |-> 1, tx_workers |-> 1])
        + QSlack
\* a pipeline and the daemon's tip; pools of several workers get a short chain
QueueInputs ==
    {i \in [cfg : PipelineCfgs, tip : 1..QHeights] :
        (i.cfg.block_workers > 1 \/ i.cfg.tx_workers > 1) => i.tip <= QRaceHeights}
\* a send that completes although the channel is full
CanSendAlways(q, cap) == TRUE
\* Sender::send completes only while the channel holds fewer than cap messages
CanSend(q, cap) == Len(q) < cap
\* how often each height was handed to a worker of a stage
NoReceipts == [h \in 1..QHeights |-> 0]
Receipt(r, h) == [r EXCEPT ![h] = @ + 1]

\* work_sched::run: tx.send(SchedMsg) for the next height, once the tip has reached it
QSchedSend ==
    /\ pq.pc = "run"
    /\ pq.next <= pq.tip
    /\ CanSend(pq.qs, MakeChannels(pq.cfg).sched)
    /\ pq' = [pq EXCEPT !.qs = Append(@, pq.next), !.next = @ + 1]
    /\ UNCHANGED <<daemonVars, schedVars, pipeVars, storeVars, ckpt, watchVars, healVars, rpc,
                   fetch, cp, shutdown, rest, sStart, bf, ev, px, lim, tf, rp, hf, wl>>

\* work_block::run: recv under the receiver's lock
QBlockRecv(w) ==
    /\ pq.pc = "run"
    /\ w <= pq.cfg.block_workers
    /\ pq.bw[w] = 0
    /\ pq.qs # <<>>
    /\ pq' = [pq EXCEPT !.bw[w] = Head(pq.qs), !.qs = Tail(@),
                        !.gotB = Receipt(@, Head(pq.qs))]
    /\ UNCHANGED <<daemonVars, schedVars, pipeVars, storeVars, ckpt, watchVars, healVars, rpc,
                   fetch, cp, shutdown, rest, sStart, bf, ev, px, lim, tf, rp, hf, wl>>

\* work_block::run: tx.send(block)
QBlockSend(w) ==
    /\ pq.pc = "run"
    /\ w <= pq.cfg.block_workers
    /\ pq.bw[w] # 0
    /\ CanSend(pq.qb, MakeChannels(pq.cfg).block)
    /\ pq' = [pq EXCEPT !.qb = Append(@, pq.bw[w]), !.bw[w] = 0]
    /\ UNCHANGED <<daemonVars, schedVars, pipeVars, storeVars, ckpt, watchVars, healVars, rpc,
                   fetch, cp, shutdown, rest, sStart, bf, ev, px, lim, tf, rp, hf, wl>>

\* work_tx::run: recv under the receiver's lock
QTxRecv(w) ==
    /\ pq.pc = "run"
    /\ w <= pq.cfg.tx_workers
    /\ pq.tw[w] = 0
    /\ pq.qb # <<>>
    /\ pq' = [pq EXCEPT !.tw[w] = Head(pq.qb), !.qb = Tail(@),
                        !.gotT = Receipt(@, Head(pq.qb))]
    /\ UNCHANGED <<daemonVars, schedVars, pipeVars, storeVars, ckpt, watchVars, healVars, rpc,
                   fetch, cp, shutdown, rest, sStart, bf, ev, px, lim, tf, rp, hf, wl>>

\* work_tx::run: tx.send(msg)
QTxSend(w) ==
    /\ pq.pc = "run"
    /\ w <= pq.cfg.tx_workers
    /\ pq.tw[w] # 0
    /\ CanSend(pq.qt, MakeChannels(pq.cfg).tx)
    /\ pq' = [pq EXCEPT !.qt = Append(@, pq.tw[w]), !.tw[w] = 0]
    /\ UNCHANGED <<daemonVars, schedVars, pipeVars, storeVars, ckpt, watchVars, healVars, rpc,
                   fetch, cp, shutdown, rest, sStart, bf, ev, px, lim, tf, rp, hf, wl>>

\* work_persist::run: recv and persist_block, while the database answers
QPersist ==
    /\ pq.pc = "run"
    /\ ~pq.stalled
    /\ pq.qt # <<>>
    /\ pq' = [pq EXCEPT !.persisted = @ \cup {Head(pq.qt)}, !.qt = Tail(@)]
    /\ UNCHANGED <<daemonVars, schedVars, pipeVars, storeVars, ckpt, watchVars, healVars, rpc,
                   fetch, cp, shutdown, rest, sStart, bf, ev, px, lim, tf, rp, hf, wl>>

\* persist_block waits on the database and the persister receives no more
QStall ==
    /\ pq.pc = "run"
    /\ ~pq.stalled
    /\ pq' = [pq EXCEPT !.stalled = TRUE]
    /\ UNCHANGED <<daemonVars, schedVars, pipeVars, storeVars, ckpt, watchVars, healVars, rpc,
                   fetch, cp, shutdown, rest, sStart, bf, ev, px, lim, tf, rp, hf, wl>>

\* every step of the stages above the persister
QueueFlow ==
    \/ QSchedSend
    \/ \E w \in 1..MaxBlockWorkers : QBlockRecv(w) \/ QBlockSend(w)
    \/ \E w \in 1..MaxTxWorkers : QTxRecv(w) \/ QTxSend(w)

\* ----------------------------------------------------------- specifications
InitDaemon ==
    /\ dTip = 1
    /\ dEp = [h \in Heights |-> 0]
    /\ dReorgs = 0

InitPipeline ==
    /\ sPc = "poll"
    /\ sStart = Some(StartHeight)
    /\ sNext = SchedStart(sStart, 0)
    /\ sProcessed = 0
    /\ sMsg = NoMsg
    /\ qSched = <<>>
    /\ qBlock = <<>>
    /\ qTx = <<>>
    /\ bw = [w \in BlockWorkerIds |-> [pc |-> "recv", job |-> NoMsg]]
    /\ tw = [w \in TxWorkerIds |-> [pc |-> "recv", job |-> NoMsg]]
    /\ pPc = "recv"
    /\ pMsg = NoMsg

InitStore ==
    /\ blocks = EmptyFn
    /\ tips = EmptyFn
    /\ txs = EmptyFn
    /\ mempool = {}
    /\ ckpt = [present |-> FALSE, last |-> 0, fin |-> 0]

InitWatchHeal ==
    /\ wPc = "idle"
    /\ wSnap = {}
    /\ lastHeal = NoHeal
    /\ healTick = 0
    /\ rpc = {}

InitAux ==
    /\ InitWatchHeal
    /\ fetch = NoFetch
    /\ cp = NoCp
    /\ shutdown = FALSE
    /\ InitMore
    /\ rest = NoRest

\* no pipeline stage running
InitIdlePipeline ==
    /\ sPc = "done"
    /\ sStart = Some(StartHeight)
    /\ sNext = StartHeight
    /\ sProcessed = 0
    /\ sMsg = NoMsg
    /\ qSched = <<>>
    /\ qBlock = <<>>
    /\ qTx = <<>>
    /\ bw = [w \in BlockWorkerIds |-> [pc |-> "done", job |-> NoMsg]]
    /\ tw = [w \in TxWorkerIds |-> [pc |-> "done", job |-> NoMsg]]
    /\ pPc = "done"
    /\ pMsg = NoMsg

Init == InitDaemon /\ InitPipeline /\ InitStore /\ InitAux

PipelineNext ==
    \/ SchedPoll
    \/ SchedSend
    \/ SchedFinish
    \/ \E w \in BlockWorkerIds : BlockRecv(w)
    \/ \E w \in BlockWorkerIds : BlockExit(w)
    \/ \E w \in BlockWorkerIds : BlockEmit(w)
    \/ \E w \in BlockWorkerIds : BlockHeal(w)
    \/ \E w \in BlockWorkerIds : BlockHealFail(w)
    \/ \E w \in TxWorkerIds : TxRecv(w)
    \/ \E w \in TxWorkerIds : TxExit(w)
    \/ \E w \in TxWorkerIds : TxEmit(w)
    \/ PersistCommit
    \/ PersistFinish
    \/ PersistExit

Next ==
    \/ DaemonGrow
    \/ DaemonReorg
    \/ PipelineNext

Spec == Init /\ [][Next]_vars

\* the pipeline against a stable chain 1..MaxTip, every enabled step eventually taken
StableNext ==
    \/ SchedPoll
    \/ SchedSend
    \/ SchedFinish
    \/ \E w \in BlockWorkerIds : BlockRecv(w)
    \/ \E w \in BlockWorkerIds : BlockExit(w)
    \/ \E w \in BlockWorkerIds : BlockEmit(w)
    \/ \E w \in TxWorkerIds : TxRecv(w)
    \/ \E w \in TxWorkerIds : TxExit(w)
    \/ \E w \in TxWorkerIds : TxEmit(w)
    \/ PersistCommit
    \/ PersistFinish
    \/ PersistExit

InitStable ==
    /\ dTip = MaxTip
    /\ dEp = [h \in Heights |-> 0]
    /\ dReorgs = 0
    /\ InitPipeline /\ InitStore /\ InitAux

SpecStable == InitStable /\ [][StableNext]_vars /\ WF_vars(StableNext)

\* the pipeline on a growing chain beside the mempool watcher
MempoolNext ==
    \/ DaemonGrow
    \/ StableNext
    \/ WatcherPoll
    \/ WatcherUpsert

SpecMempool == Init /\ [][MempoolNext]_vars

\* the sequential ingest loop, started at the genesis block or at height 1
InitSeq ==
    /\ InitDaemon
    /\ sPc = "poll"
    /\ sStart \in {Some(0), Some(1)}
    /\ sNext = SchedStart(sStart, 0)
    /\ sProcessed = 0
    /\ sMsg = NoMsg
    /\ qSched = <<>>
    /\ qBlock = <<>>
    /\ qTx = <<>>
    /\ bw = [w \in BlockWorkerIds |-> [pc |-> "done", job |-> NoMsg]]
    /\ tw = [w \in TxWorkerIds |-> [pc |-> "done", job |-> NoMsg]]
    /\ pPc = "done"
    /\ pMsg = NoMsg
    /\ InitStore /\ InitAux

SeqNext ==
    \/ DaemonGrow
    \/ DaemonReorg
    \/ SeqFetch
    \/ SeqHeal
    \/ SeqHealFail
    \/ SeqPersist

SpecSeq == InitSeq /\ [][SeqNext]_vars

\* the sequential ingest loop on a long stable chain, past the confirmation window
ConfMaxTip == Max(FinalityWindow, 1) + WindowExtra + ConfSlack

ConfGrow ==
    /\ dTip < ConfMaxTip
    /\ dTip' = dTip + 1
    /\ rpc' = {}
    /\ UNCHANGED <<auxVars, dEp, dReorgs, schedVars, pipeVars, storeVars, ckpt, watchVars, healVars>>

ConfNext ==
    \/ ConfGrow
    \/ SeqFetch
    \/ SeqPersist

SpecConfirm == InitSeq /\ [][ConfNext]_vars

\* a call of fetch_txs_adaptive for each list length, daemon limit and start chunk
InitFetch ==
    /\ InitDaemon /\ InitIdlePipeline /\ InitStore /\ InitWatchHeal
    /\ fetch \in {[pc |-> "loop", n |-> n, k |-> k, i |-> 0, chunk |-> Max(sc, MinChunk),
                   out |-> <<>>, last |-> 0, missed |-> FALSE, tick |-> 0] :
                     n \in 0..MaxHashes, k \in 1..MaxK, sc \in StartChunks}
    /\ cp = NoCp
    /\ shutdown = FALSE
    /\ InitMore
    /\ rest = NoRest

FetchNext ==
    \/ FetchRequest
    \/ FetchReturn

SpecFetch == InitFetch /\ [][FetchNext]_vars /\ WF_vars(FetchNext)

\* the scheduler alone, for each start_height option and checkpoint, beside a
\* daemon whose tip rises and falls; nothing consumes the queue
StartOptions == {None} \cup {Some(v) : v \in -1..2}
\* a store left by an earlier run that ingested 1..n in order at tip n
SeedBlocks(n) ==
    [h \in 1..n |-> [hash |-> <<h, 0>>, prev_hash |-> <<h - 1, 0>>,
                     confirmations |-> n - h + 1, is_final |-> (h <= FinalizedOf(n))]]
SeedTips(n) == [h \in 1..n |-> [hash |-> <<h, 0>>, prev_hash |-> <<h - 1, 0>>]]
SeedTxs(n) == [x \in {<<"m", h, 0>> : h \in 1..n} \cup {<<"t", h, 0>> : h \in 1..n} |-> x[2]]
SeedCheckpoint(n) ==
    IF n = 0 THEN [present |-> FALSE, last |-> 0, fin |-> 0]
    ELSE [present |-> TRUE, last |-> n, fin |-> FinalizedOf(n)]

InitSched ==
    /\ \E n \in 0..(MaxTip - 1) :
         /\ dTip = Max(n, 1)
         /\ blocks = SeedBlocks(n)
         /\ tips = SeedTips(n)
         /\ txs = SeedTxs(n)
         /\ ckpt = SeedCheckpoint(n)
    /\ dEp = [h \in Heights |-> 0]
    /\ dReorgs = 0
    /\ mempool = {}
    /\ sStart \in StartOptions
    /\ sNext = SchedStart(sStart, ReadCheckpoint)
    /\ sPc = "poll"
    /\ sProcessed = 0
    /\ sMsg = NoMsg
    /\ qSched = <<>>
    /\ qBlock = <<>>
    /\ qTx = <<>>
    /\ bw = [w \in BlockWorkerIds |-> [pc |-> "recv", job |-> NoMsg]]
    /\ tw = [w \in TxWorkerIds |-> [pc |-> "recv", job |-> NoMsg]]
    /\ pPc = "recv"
    /\ pMsg = NoMsg
    /\ InitWatchHeal
    /\ fetch = NoFetch
    /\ cp = NoCp
    /\ shutdown = FALSE
    /\ InitMore
    /\ rest = NoRest

\* the daemon switches to a chain one block shorter
DaemonTipDrop ==
    /\ dTip > 1
    /\ dTip' = dTip - 1
    /\ rpc' = {}
    /\ UNCHANGED <<auxVars, dEp, dReorgs, schedVars, pipeVars, storeVars, ckpt, watchVars, healVars>>

SchedNext ==
    \/ DaemonGrow
    \/ DaemonTipDrop
    \/ SchedPoll
    \/ SchedSend
    \/ SchedFinish

SpecSched == InitSched /\ [][SchedNext]_vars

\* one task calling Checkpoint::set again and again, another calling get_state
InitCheckpoint ==
    /\ InitDaemon /\ InitIdlePipeline /\ InitStore /\ InitWatchHeal
    /\ cp = [pc |-> "idle", arg |-> <<0, 0>>, before |-> <<0, 0>>, done |-> <<0, 0>>,
             read |-> NoRead]
    /\ fetch = NoFetch
    /\ shutdown = FALSE
    /\ InitMore
    /\ rest = NoRest

CheckpointNext ==
    \/ CpSetLast
    \/ CpSetFinalized
    \/ CpGetState

SpecCheckpoint == InitCheckpoint /\ [][CheckpointNext]_vars

\* the shutdown sender fires; every stage holds the receiver as _shutdown and
\* none of them polls it
ShutdownSignal ==
    /\ ~shutdown
    /\ shutdown' = TRUE
    /\ rpc' = {}
    /\ UNCHANGED <<daemonVars, schedVars, pipeVars, storeVars, ckpt, watchVars, healVars,
                   fetch, cp, rest, sStart, moreVars>>

\* the pipeline on a growing chain with the shutdown signal fired at any moment
ShutdownNext ==
    \/ DaemonGrow
    \/ StableNext
    \/ ShutdownSignal

SpecShutdown == Init /\ [][ShutdownNext]_vars

\* a REST call of either kind answered by any response
InitRest ==
    /\ InitDaemon /\ InitIdlePipeline /\ InitStore /\ InitWatchHeal
    /\ rest \in {[pc |-> "sent", call |-> c, resp |-> r, result |-> [ok |-> FALSE, items |-> 0]] :
                   c \in {"get_transactions", "get_transaction_pool_hashes"},
                   r \in RestResponses}
    /\ fetch = NoFetch
    /\ cp = NoCp
    /\ shutdown = FALSE
    /\ InitMore

RestNext == RestReturn

SpecRest == InitRest /\ [][RestNext]_vars

\* backfill called with each batch size on each store over BfHeights heights
InitBackfill ==
    /\ InitDaemon /\ InitIdlePipeline /\ InitStore /\ InitWatchHeal
    /\ \E b \in SUBSET (1..BfHeights) : \E p \in SUBSET b : \E s \in SUBSET b :
         \E k \in 1..MaxBatch :
           bf = [pc |-> "select", batch |-> k, blocks |-> b, pending |-> p, sf |-> s,
                 sel |-> <<>>, done |-> 0,
                 todo |-> Cardinality({h \in b : h \in p \/ h \notin s})]
    /\ fetch = NoFetch /\ cp = NoCp /\ shutdown = FALSE /\ rest = NoRest
    /\ ev = Idle /\ px = Idle /\ lim = Idle /\ tf = Idle /\ InitLate

BackfillNext ==
    \/ BackfillSelect
    \/ BackfillApply

SpecBackfill == InitBackfill /\ [][BackfillNext]_vars /\ WF_vars(BackfillNext)

\* a store holding any of the transactions of heights 1..EvHeights, any of
\* them in the mempool table
InitEvict ==
    /\ InitDaemon /\ InitIdlePipeline /\ InitWatchHeal
    /\ blocks = EmptyFn /\ tips = EmptyFn
    /\ ckpt = [present |-> FALSE, last |-> 0, fin |-> 0]
    /\ \E d \in SUBSET EvHashes : txs = [x \in d |-> x[2]]
    /\ mempool \in SUBSET EvHashes
    /\ fetch = NoFetch /\ cp = NoCp /\ shutdown = FALSE /\ rest = NoRest
    /\ bf = Idle /\ ev = Idle /\ px = Idle /\ lim = Idle /\ tf = Idle /\ InitLate

EvictNext ==
    \/ EvictCall
    \/ RequeueCall

SpecEvict == InitEvict /\ [][EvictNext]_vars

\* parse_tx_extra called with the hex of up to MaxFields fields cut at any byte
InitParse ==
    /\ InitDaemon /\ InitIdlePipeline /\ InitStore /\ InitWatchHeal
    /\ \E n \in 0..MaxFields : \E fs \in [1..n -> FieldKinds] :
         \E cut \in 0..Len(FieldsBytes(fs)) :
           px = [pc |-> "input", fields |-> fs, cut |-> cut,
                 hex |-> HexEncode(SubSeq(FieldsBytes(fs), 1, cut)),
                 res |-> [ok |-> FALSE, tags |-> <<>>]]
    /\ fetch = NoFetch /\ cp = NoCp /\ shutdown = FALSE /\ rest = NoRest
    /\ bf = Idle /\ ev = Idle /\ lim = Idle /\ tf = Idle /\ InitLate

ParseNext ==
    \/ ParseCall

SpecParse == InitParse /\ [][ParseNext]_vars

\* the limits computed for each configured rate, concurrency and mode
InitLimits ==
    /\ InitDaemon /\ InitIdlePipeline /\ InitStore /\ InitWatchHeal
    /\ \E r \in (0..MaxRate) \cup LargeRates : \E c \in 0..MaxConc : \E b \in BOOLEAN :
         lim = [pc |-> "config", rps |-> r, base |-> c, bootstrap |-> b,
                quota |-> 0, conc |-> 0, n |-> 0, admitted |-> FALSE]
    /\ fetch = NoFetch /\ cp = NoCp /\ shutdown = FALSE /\ rest = NoRest
    /\ bf = Idle /\ ev = Idle /\ px = Idle /\ tf = Idle /\ InitLate

LimitsNext ==
    \/ LimitsMake
    \/ LimitsCheckN

SpecLimits == InitLimits /\ [][LimitsNext]_vars

\* one tx worker holding a BlockMsg with n tx_hashes
InitTxFetch ==
    /\ InitDaemon /\ InitIdlePipeline /\ InitStore /\ InitWatchHeal
    /\ \E n \in TxCounts : \E c \in 1..MaxTxConc :
         tf = [pc |-> "fetch", n |-> n, conc |-> c, next |-> 1, inflight |-> {},
               acc |-> <<>>, skipped |-> FALSE,
               msg |-> [ordered_tx_hashes |-> <<>>, tx_jsons |-> <<>>]]
    /\ fetch = NoFetch /\ cp = NoCp /\ shutdown = FALSE /\ rest = NoRest
    /\ bf = Idle /\ ev = Idle /\ px = Idle /\ lim = Idle /\ InitLate

TxFetchNext ==
    \/ TxFetchStart
    \/ TxFetchComplete
    \/ TxFetchEmit

SpecTxFetch == InitTxFetch /\ [][TxFetchNext]_vars

\* fetch_txs_adaptive with any start_chunk, those above the largest chunk included
AnyStartChunks == StartChunks \cup {MaxChunk - 5, MaxChunk, MaxChunk + 10}
InitFetchAny ==
    /\ InitDaemon /\ InitIdlePipeline /\ InitStore /\ InitWatchHeal
    /\ fetch \in {[pc |-> "loop", n |-> n, k |-> k, i |-> 0, chunk |-> Max(sc, MinChunk),
                   out |-> <<>>, last |-> 0, missed |-> FALSE, tick |-> 0] :
                     n \in 0..MaxHashes, k \in 1..MaxK, sc \in AnyStartChunks}
    /\ cp = NoCp /\ shutdown = FALSE /\ rest = NoRest
    /\ InitMore

SpecFetchAny == InitFetchAny /\ [][FetchNext]_vars

\* the pipeline beside a growing and reorganising daemon, every stage that can
\* step eventually stepping
SpecHeal ==
    /\ Init /\ [][Next]_vars
    /\ \A w \in BlockWorkerIds : WF_vars(BlockEmit(w))
    /\ \A w \in TxWorkerIds : WF_vars(TxRecv(w)) /\ WF_vars(TxEmit(w))
    /\ WF_vars(PersistCommit) /\ WF_vars(PersistFinish)

\* the scheduler alone beside a daemon whose get_block_count may fail
SchedFailNext ==
    \/ SchedNext
    \/ SchedPollFail

SpecSchedFail == InitSched /\ [][SchedFailNext]_vars

\* the pipeline on a growing chain beside the mempool watcher, with a store
\* whose writes may fail
PersistFailNext ==
    \/ MempoolNext
    \/ PersistFail

SpecPersistFail == Init /\ [][PersistFailNext]_vars

\* a store left by an earlier run, any of the block's txs in the mempool, and
\* a TxMsg for any height, of the stored chain or of another one
InitRepersist ==
    /\ InitDaemon /\ InitIdlePipeline /\ InitWatchHeal
    /\ \E n \in 0..MaxTip :
         /\ blocks = SeedBlocks(n) /\ tips = SeedTips(n) /\ txs = SeedTxs(n)
         /\ ckpt = SeedCheckpoint(n)
    /\ \E h \in 1..MaxTip : \E e \in 0..1 : \E t \in h..MaxTip : \E f \in 0..t :
         /\ rp = [pc |-> "msg", once |-> <<>>,
                  msg |-> [height |-> h, hash |-> <<h, e>>, prev_hash |-> <<h - 1, e>>,
                           tip |-> t, fin |-> f,
                           ordered_tx_hashes |-> << <<"t", h, e>> >>,
                           miner_tx_hash |-> <<"m", h, e>>]]
         /\ mempool \in SUBSET {<<"t", h, e>>, <<"m", h, e>>, <<"t", 0, 0>>}
    /\ fetch = NoFetch /\ cp = NoCp /\ shutdown = FALSE /\ rest = NoRest
    /\ bf = Idle /\ ev = Idle /\ px = Idle /\ lim = Idle /\ tf = Idle
    /\ hf = Idle /\ wl = Idle /\ pq = Idle

RepersistNext ==
    \/ RepersistCall

SpecRepersist == InitRepersist /\ [][RepersistNext]_vars

\* a block worker's HeaderFetcher::new(rpc, limiter, caps, batch_size), asked
\* for rising heights
InitHeaderFetch ==
    /\ InitDaemon /\ InitIdlePipeline /\ InitStore /\ InitWatchHeal
    /\ \E r \in BOOLEAN : \E b \in 1..MaxHeaderBatch :
         hf = [pc |-> "ready", use_range |-> r, buffered |-> <<>>, batch |-> Max(b, 1),
               reqs |-> <<>>, last |-> 0, fellBack |-> FALSE, before |-> FALSE]
    /\ fetch = NoFetch /\ cp = NoCp /\ shutdown = FALSE /\ rest = NoRest
    /\ bf = Idle /\ ev = Idle /\ px = Idle /\ lim = Idle /\ tf = Idle
    /\ rp = Idle /\ wl = Idle /\ pq = Idle

HeaderFetchNext ==
    \/ HeaderFetchCall

SpecHeaderFetch == InitHeaderFetch /\ [][HeaderFetchNext]_vars

\* the watcher thread alone, over any mempool table
InitWatch ==
    /\ InitDaemon /\ InitIdlePipeline /\ InitWatchHeal
    /\ blocks = EmptyFn /\ tips = EmptyFn /\ txs = EmptyFn
    /\ ckpt = [present |-> FALSE, last |-> 0, fin |-> 0]
    /\ mempool \in SUBSET PoolHashes
    /\ wl = [pc |-> "setup", up |-> FALSE, event |-> "none", refreshed |-> FALSE,
             outcome |-> "none", pool |-> {}, before |-> {}, failed |-> FALSE]
    /\ fetch = NoFetch /\ cp = NoCp /\ shutdown = FALSE /\ rest = NoRest
    /\ bf = Idle /\ ev = Idle /\ px = Idle /\ lim = Idle /\ tf = Idle
    /\ rp = Idle /\ hf = Idle /\ pq = Idle

WatchNext ==
    \/ WatchSetup
    \/ WatchRecv

SpecWatch == InitWatch /\ [][WatchNext]_vars

InitQueue ==
    /\ InitDaemon /\ InitIdlePipeline /\ InitStore /\ InitWatchHeal
    /\ fetch = NoFetch /\ cp = NoCp /\ shutdown = FALSE /\ rest = NoRest
    /\ bf = Idle /\ ev = Idle /\ px = Idle /\ lim = Idle /\ tf = Idle
    /\ rp = Idle /\ hf = Idle /\ wl = Idle
    /\ \E i \in QueueInputs :
          pq = [pc |-> "run", cfg |-> i.cfg, tip |-> i.tip, next |-> 1, qs |-> <<>>, qb |-> <<>>, qt |-> <<>>,
                bw |-> [w \in 1..MaxBlockWorkers |-> 0], tw |-> [w \in 1..MaxTxWorkers |-> 0],
                gotB |-> NoReceipts, gotT |-> NoReceipts, persisted |-> {}, stalled |-> FALSE]
QueueNext == QueueFlow \/ QPersist \/ QStall
\* every stage runs on its own task, so a stage that can step does
SpecQueue == InitQueue /\ [][QueueNext]_vars /\ WF_vars(QueueFlow)

\* the pipeline started again with --start-height over the store an earlier run
\* left behind, beside a daemon that grows and reorganises
RestartOptions == {Some(v) : v \in 1..MaxTip}
InitRestart ==
    /\ \E n \in 0..MaxTip :
         /\ dTip = Max(n, 1)
         /\ blocks = SeedBlocks(n)
         /\ tips = SeedTips(n)
         /\ txs = SeedTxs(n)
         /\ ckpt = SeedCheckpoint(n)
    /\ dEp = [h \in Heights |-> 0]
    /\ dReorgs = 0
    /\ mempool = {}
    /\ sStart \in RestartOptions
    /\ sNext = SchedStart(sStart, ReadCheckpoint)
    /\ sPc = "poll"
    /\ sProcessed = 0
    /\ sMsg = NoMsg
    /\ qSched = <<>>
    /\ qBlock = <<>>
    /\ qTx = <<>>
    /\ bw = [w \in BlockWorkerIds |-> [pc |-> "recv", job |-> NoMsg]]
    /\ tw = [w \in TxWorkerIds |-> [pc |-> "recv", job |-> NoMsg]]
    /\ pPc = "recv"
    /\ pMsg = NoMsg
    /\ InitWatchHeal
    /\ fetch = NoFetch
    /\ cp = NoCp
    /\ shutdown = FALSE
    /\ InitMore
    /\ rest = NoRest

SpecRestart == InitRestart /\ [][Next]_vars

\* ------------------------------------------------------------------ claims
PersisterIdle == pPc \in {"recv", "done"}

\* C1: in every reachable state, every stored block at a height h > 0 whose
\* predecessor h-1 is stored too has prev_hash equal to the predecessor's hash.
C1_PrevHashLinked ==
    \A h \in DOMAIN blocks :
        (h > 0 /\ (h - 1) \in DOMAIN blocks) => blocks[h].prev_hash = blocks[h - 1].hash

\* C2: after a heal of a reorg detected at height h with fork_height < h, once h
\* is persisted the store holds a block at every height from fork_height up to h.
C2_ResumesFromFork ==
    (lastHeal.res = "ok" /\ lastHeal.fork < lastHeal.start /\ lastHeal.start \in DOMAIN blocks)
        => \A x \in lastHeal.fork..lastHeal.start : x \in DOMAIN blocks

\* C6: checkpoint.last_ingested_height never decreases in a step, except in a
\* reorg heal, which sets it to fork_height - 1.
C6_CheckpointMonotone ==
    [][ \/ ckpt'.last >= ckpt.last
        \/ /\ healTick' # healTick
           /\ lastHeal'.res = "ok"
           /\ ckpt'.last = lastHeal'.fork - 1 ]_vars

\* C10: whenever the persister has finished a block, a stored block is final
\* exactly when its height is at most checkpoint.last_finalized_height.
C10_FinalIffFinalized ==
    (PersisterIdle /\ ckpt.present)
        => \A h \in DOMAIN blocks : blocks[h].is_final <=> (h <= ckpt.fin)

\* a step in which heal_reorg ran, and one in which it succeeded
HealStep == healTick' # healTick
HealOkStep == HealStep /\ lastHeal'.res = "ok"
SetMax(S) == CHOOSE x \in S : \A y \in S : y <= x
\* the stored heights below start whose stored hash is the daemon's hash
MatchingBelow(b, start) == {h \in DOMAIN b : h < start /\ DaemonHash(h) = b[h].hash}

\* C3: after a successful heal_reorg(start) no blocks row and no chain_tips row is
\* left at a height >= fork_height, where fork_height - 1 is the highest height
\* below start at which the daemon's hash equals the stored hash, and every
\* block below fork_height is unchanged.
C3_HealRollsBack ==
    [][ HealOkStep =>
          LET M == MatchingBelow(blocks, lastHeal'.start)
          IN /\ M # {}
             /\ LET fork_height == SetMax(M) + 1
                IN /\ \A h \in DOMAIN blocks' : h < fork_height
                   /\ \A h \in DOMAIN tips' : h < fork_height
                   /\ \A h \in DOMAIN blocks :
                        h < fork_height => (h \in DOMAIN blocks' /\ blocks'[h] = blocks[h]) ]_vars

C3_Healed ==
    /\ lastHeal.res = "ok"
    /\ lastHeal.fork < lastHeal.start
    /\ blocks # EmptyFn
    /\ \A h \in DOMAIN blocks : h < lastHeal.fork

\* the daemon's hash differs from the stored hash at the FinalityWindow + 1
\* consecutive heights just below start
DeepDivergence(b, start) ==
    \A h \in (start - 1 - FinalityWindow)..(start - 1) :
        h \in DOMAIN b /\ DaemonHash(h) # b[h].hash

\* C4: when the daemon's hashes differ from the stored hashes at more than
\* finality_window consecutive heights below start, heal_reorg fails and leaves
\* blocks, chain_tips, txs and mempool_txs as they were.
C4_DeepReorgFails ==
    [][ (HealStep /\ DeepDivergence(blocks, lastHeal'.start))
          => (lastHeal'.res # "ok" /\ UNCHANGED storeVars) ]_vars

C4_TooDeep ==
    /\ lastHeal.res = "too_deep"
    /\ sPc = "failed"
    /\ DeepDivergence(blocks, lastHeal.start)

\* C5: after a successful heal, every transaction that was recorded at a height
\* in [fork_height, start) has a row in mempool_txs.
C5_HealRequeues ==
    [][ HealOkStep =>
          \A x \in DOMAIN txs :
              (txs[x] >= lastHeal'.fork /\ txs[x] < lastHeal'.start) => x \in mempool' ]_vars

C5_Requeued ==
    /\ lastHeal.res = "ok"
    /\ \E x \in mempool : x[2] >= lastHeal.fork /\ x[2] < lastHeal.start
    /\ \E x \in mempool : x[1] = "m"

\* every stage of the pipeline has returned and every queue is drained
Terminated ==
    /\ sPc = "done"
    /\ BlockClosed
    /\ TxClosed
    /\ pPc = "done"
    /\ qSched = <<>> /\ qBlock = <<>> /\ qTx = <<>>

\* C7: on a stable chain 1..MaxTip with the scheduler started at 1 with limit
\* MaxTip, the scheduler, the workers and the persister all eventually terminate
\* and the store then holds exactly MaxTip blocks.
C7_StableTerminates == <>[](Terminated /\ Cardinality(DOMAIN blocks) = MaxTip)

C7_AllStored == Terminated /\ DOMAIN blocks = Heights

\* C8: once the pipeline has completed the chain 1..MaxTip, the checkpoint's
\* last ingested height is MaxTip.
C8_CheckpointAtTip == Terminated => (ckpt.present /\ ckpt.last = MaxTip)

\* C9: with the persister and the mempool watcher running side by side, no
\* transaction hash is both recorded in txs and present in mempool_txs once the
\* block's commit has completed.
C9_MempoolDisjoint == \A x \in DOMAIN txs : x \notin mempool

\* the step in which the sequential loop finishes persisting the fetched block
SeqPersistStep == sPc = "process" /\ sPc' = "poll" /\ healTick' = healTick

\* C11: after the persister finishes a block carrying (tip, finalized), every
\* stored block h in [max(0, tip - (finality_window + 16)), tip] has
\* confirmations = max(0, tip - h + 1) and is_final = (h <= finalized).
C11_WindowRefreshed ==
    [][ SeqPersistStep =>
          \A h \in DOMAIN blocks' :
              (h >= Max(0, sMsg.tip - (FinalityWindow + 16)) /\ h <= sMsg.tip)
                  => /\ blocks'[h].confirmations = Max(0, sMsg.tip - h + 1)
                     /\ blocks'[h].is_final = (h <= sMsg.fin) ]_vars

\* a block below the window kept its older count after a persist at a tip
\* beyond the window span, while the block at the window start was refreshed
C11_BelowWindowStale ==
    /\ sPc = "poll"
    /\ ckpt.present
    /\ dTip = ckpt.fin + FinalityWindow
    /\ WindowStart(dTip) > 0
    /\ 0 \in DOMAIN blocks
    /\ blocks[0].confirmations # dTip + 1
    /\ WindowStart(dTip) \in DOMAIN blocks
    /\ blocks[WindowStart(dTip)].confirmations = dTip - WindowStart(dTip) + 1

\* C12: for any N hashes, any start chunk and a daemon refusing every request of
\* more than K hashes, fetch_txs_adaptive terminates, and when N > 0 its last
\* request has at most K hashes.
C12_FetchTerminates ==
    <>(fetch.pc = "done" /\ (fetch.n > 0 => fetch.last <= fetch.k))

\* C13: when fetch_txs_adaptive returns for N hashes, the result has exactly N
\* entries and entry i is the JSON of hash i, whatever retries happened.
C13_FetchInOrder ==
    fetch.pc = "done"
        => /\ Len(fetch.out) = fetch.n
           /\ \A j \in 1..fetch.n : fetch.out[j] = JsonOf(j)

C13_ReturnedAfterRetry ==
    /\ fetch.pc = "done"
    /\ fetch.missed
    /\ fetch.n > 2 * MinChunk
    /\ Len(fetch.out) = fetch.n

\* the first height the scheduler is to emit, from its start option and the
\* checkpoint row
FirstHeight ==
    LET n0 == IF sStart.some THEN sStart.v
              ELSE (IF ckpt.present THEN ckpt.last ELSE 0) + 1
    IN IF n0 < 0 THEN 0 ELSE n0

\* C14: the heights the scheduler emits are n0, n0+1, n0+2, ... with n0 the
\* start_height if given, else checkpoint.last_ingested + 1, clamped to >= 0,
\* however the daemon's tip moves between polls.
C14_EmitsConsecutive ==
    \A i \in 1..Len(qSched) : qSched[i].height = FirstHeight + i - 1

C14_ResumedTwo ==
    /\ ~sStart.some
    /\ ckpt.present
    /\ Len(qSched) = 2
    /\ qSched[1].tip # qSched[2].tip

\* C15: every SchedMsg has height <= tip and finalized = max(0, tip -
\* finality_window) for the tip of the poll that produced it, and while
\* next_height > tip the scheduler emits nothing and nothing is written.
C15_MsgWithinTip ==
    [][ /\ (Len(qSched') > Len(qSched)) =>
              LET m == qSched'[Len(qSched')]
              IN /\ m.tip = sMsg.tip
                 /\ m.height <= m.tip
                 /\ m.fin = Max(0, m.tip - FinalityWindow)
        /\ (sPc = "poll" /\ sNext > dTip /\ dTip' = dTip) =>
              (qSched' = qSched /\ sPc' # "send" /\ UNCHANGED <<storeVars, ckpt>>) ]_vars

C15_WaitedThenEmitted ==
    /\ ~sStart.some
    /\ ckpt.present
    /\ Len(qSched) = 1
    /\ qSched[1].height = ckpt.last + 1
    /\ qSched[1].tip > qSched[1].height

\* C16: a get_state running while a set(last, finalized) is under way returns
\* either the pair stored before the set or the pair (last, finalized), never
\* the new last_height with the old finalized_height.
C16_SetAtomic ==
    cp.read.mid => cp.read.val \in {cp.read.before, cp.read.arg}

\* C17: get_state on an absent row returns (0, 0), and after any sequence of
\* completed set calls with no set under way it returns the pair of the last set.
C17_RoundTrip ==
    (cp.read.val # NoRead.val /\ ~cp.read.mid) => cp.read.val = cp.read.expect

C17_ReadAfterSecondSet ==
    /\ cp.pc = "idle"
    /\ ~cp.read.mid
    /\ cp.read.val = cp.done
    /\ cp.read.before # <<0, 0>>
    /\ cp.read.before # cp.read.val
    /\ cp.read.val[2] > 0

\* C18: once the shutdown signal has fired the scheduler emits no further
\* SchedMsg (and drops its sender, after which the downstream stages drain
\* and exit).
C18_StopsOnShutdown ==
    [][ shutdown => Len(qSched') <= Len(qSched) ]_vars

\* C19: every request sent to the daemon by any component is preceded by the
\* acquisition of a token from the shared rate limiter.
C19_EveryRequestLimited == \A r \in rpc : r.token

\* C20: every REST call of the RPC client (get_transactions and
\* get_transaction_pool_hashes) returns an error when the HTTP response is 2xx
\* but the body's status field is not "OK".
C20_RestStatusChecked ==
    (rest.pc = "returned" /\ IsSuccess(rest.resp.http) /\ rest.resp.decodes
        /\ rest.resp.status # "OK") => ~rest.result.ok

\* C21: backfill with batch >= 1 terminates on any store, and when it returns
\* no block has analytics_pending = TRUE, every block has a soft_facts row, and
\* the returned count is the number of blocks that were pending or lacked soft
\* facts at the start.
C21_BackfillCompletes ==
    <>[](/\ bf.pc = "done"
         /\ bf.pending = {}
         /\ bf.blocks \subseteq bf.sf
         /\ bf.done = bf.todo)

C21_BackfilledInBatches ==
    /\ bf.pc = "done"
    /\ bf.done = BfHeights
    /\ bf.batch = 2
    /\ bf.sf = bf.blocks

\* C22: evict_mempool_on_inclusion removes exactly the listed hashes from the
\* mempool table and leaves every other row; a following
\* requeue_mempool_from_block(h) leaves a mempool row for every transaction
\* recorded at height h.
C22_EvictThenRequeue ==
    /\ ev.pc = "evicted" =>
         /\ \A x \in ev.before : x \in mempool <=> x \notin ev.hashes
         /\ mempool \subseteq ev.before
    /\ ev.pc = "requeued" =>
         /\ \A x \in DOMAIN txs : txs[x] = ev.height => x \in mempool
         /\ \A x \in ev.before \ ev.hashes : x \in mempool

C22_EvictedRowRestored ==
    /\ ev.pc = "requeued"
    /\ \E x \in ev.before \cap ev.hashes : x \in DOMAIN txs /\ txs[x] = ev.height /\ x \in mempool
    /\ \E y \in ev.before \cap ev.hashes : y \notin mempool
    /\ \E z \in ev.before \ ev.hashes : z \in mempool

\* the tag a complete field stands for
FieldTags(f) ==
    CASE f = "pad" -> <<>>
      [] f = "pubkey" -> <<PubKey(Fill(64, 10))>>
      [] f = "nonce" -> <<Nonce(<<222, 173, 190, 239>>)>>
      [] f = "additional" -> <<AdditionalPubKeys(2)>>
      [] f = "unknown" -> <<Unknown(255, 1)>>

\* the tags of the fields that fit whole into the first `left` bytes; a last
\* byte that is an unknown tag on its own is Unknown(t, 0)
RECURSIVE CompleteTags(_, _)
CompleteTags(fs, left) ==
    IF fs = <<>> THEN <<>>
    ELSE LET b == FieldBytes(Head(fs))
         IN IF Len(b) <= left
            THEN FieldTags(Head(fs)) \o CompleteTags(Tail(fs), left - Len(b))
            ELSE IF left = 1 /\ b[1] \notin {0, 1, 2, 4} THEN <<Unknown(b[1], 0)>>
            ELSE <<>>

\* C23: parse_tx_extra on a byte string returns, without error, the tags of
\* the fields that are complete before the first truncated one: nothing for
\* 0x00, PubKey of 32 bytes for 0x01, Nonce of the length-prefixed bytes for
\* 0x02, AdditionalPubKeys(len/32) for 0x04, Unknown(t, len) for any other t.
C23_ParsesCompleteFields ==
    px.pc = "returned" =>
        /\ px.res.ok
        /\ px.res.tags = CompleteTags(px.fields, px.cut)

C23_GoldenThenLoneTag ==
    /\ px.pc = "returned"
    /\ px.fields = <<"pubkey", "nonce", "additional", "unknown">>
    /\ px.cut = 1 + 32 + 6 + 66 + 1
    /\ px.res.ok
    /\ Len(px.res.tags) = 4
    /\ px.res.tags[2] = Nonce(<<222, 173, 190, 239>>)
    /\ px.res.tags[3] = AdditionalPubKeys(2)
    /\ px.res.tags[4] = Unknown(255, 0)

\* ceil(2.5 * R) in exact arithmetic
CeilScaled(r) == (5 * r + 1) \div 2

\* C24: without bootstrap the effective rate and concurrency are the configured
\* R and C; with bootstrap the rate is ceil(2.5 * R), a burst of exactly that
\* many requests being admitted and one more denied, and the concurrency is
\* max(2 * C, C + 4).
C24_BootstrapScaling ==
    lim.pc \in {"made", "checked"} =>
        /\ lim.quota = IF lim.bootstrap THEN CeilScaled(lim.rps) ELSE lim.rps
        /\ lim.conc = IF lim.bootstrap THEN Max(2 * lim.base, lim.base + 4) ELSE lim.base
        /\ lim.pc = "checked" =>
             (lim.admitted <=> lim.n <= (IF lim.bootstrap THEN CeilScaled(lim.rps) ELSE lim.rps))

C24_TwentyFiveAdmitted ==
    /\ lim.pc = "checked" /\ lim.bootstrap /\ lim.rps = 10
    /\ lim.n = 25 /\ lim.admitted /\ lim.conc = 16

\* C25: the TxMsg lists its (hash, json) pairs in the order of
\* BlockMsg.tx_hashes, for any number of hashes and any completion order of
\* the daemon requests.
C25_PairsInBlockOrder ==
    tf.pc = "sent" =>
        /\ \A i, j \in DOMAIN tf.msg.ordered_tx_hashes :
             i < j => tf.msg.ordered_tx_hashes[i] < tf.msg.ordered_tx_hashes[j]
        /\ \A i \in DOMAIN tf.msg.tx_jsons :
             tf.msg.tx_jsons[i] = JsonOf(tf.msg.ordered_tx_hashes[i])

\* C26: the tx fetch never yields fewer JSONs than tx_hashes: when the count
\* does not match after all chunks, the fetch fails and no TxMsg is emitted.
C26_NeverFewerJsons ==
    tf.pc = "sent" => Len(tf.msg.tx_jsons) = tf.n

\* C27: in fetch_txs_adaptive a response with missed_tx leaves the offset and
\* the output unchanged and sets chunk to max(10, chunk / 2); a response
\* without missed_tx appends its JSONs, advances the offset by the request
\* length and grows chunk by 10; the chunk used for a request is never below
\* 10 and never above 300.
C27_ChunkRule ==
    [][(fetch.pc = "loop" /\ fetch.i < fetch.n) =>
         LET end == Min(fetch.i + fetch.chunk, fetch.n)
             res == GetTransactions(fetch.i, end, fetch.k)
         IN /\ fetch.chunk >= 10
            /\ fetch.chunk <= 300
            /\ res.missed =>
                 /\ fetch'.i = fetch.i
                 /\ fetch'.out = fetch.out
                 /\ fetch'.chunk = Max(10, fetch.chunk \div 2)
            /\ ~res.missed =>
                 /\ fetch'.out = fetch.out \o res.txs
                 /\ fetch'.i = fetch.i + (end - fetch.i)
                 /\ fetch.chunk + 10 <= 300 => fetch'.chunk = fetch.chunk + 10]_vars

C27_HalvedThenGrown ==
    /\ fetch.pc = "loop"
    /\ fetch.missed
    /\ fetch.i > 0
    /\ fetch.chunk = 20

C29_FailedPollRetried ==
    [][(sPc = "poll" /\ sProcessed < Limit /\ sPc' # "send" /\ rpc' = TipRequests)
         => (sPc' = "poll" /\ sNext' = sNext)]_vars

\* C30: once a stored block's is_final is true, no later persist or
\* confirmation refresh sets it back to false while the block stays stored,
\* whatever the order and the tip/finalized values of the TxMsgs.
C30_FinalStaysFinal ==
    [][\A h \in DOMAIN blocks :
         (blocks[h].is_final /\ h \in DOMAIN blocks' /\ blocks'[h].hash = blocks[h].hash)
           => blocks'[h].is_final]_vars

\* C31: a block's writes are one SQL transaction: when a write before the
\* commit fails, none of the block's writes is visible in the store, the
\* mempool rows of its txs are still present, and the checkpoint is not
\* advanced to that height.
C31_FailedBlockLeavesNoTrace ==
    [][(pPc = "recv" /\ pPc' = "failed") =>
         LET msg == Head(qTx)
         IN /\ blocks' = blocks /\ txs' = txs /\ tips' = tips
            /\ \A x \in PreparedHashes(msg) : x \in mempool => x \in mempool'
            /\ ckpt' = ckpt
            /\ ~(ckpt.last < msg.height /\ ckpt'.last >= msg.height)]_vars

C31_FailedWithMempoolRow ==
    /\ pPc = "failed"
    /\ pMsg.height \notin DOMAIN blocks
    /\ pMsg.height \notin DOMAIN tips
    /\ \E x \in PreparedHashes(pMsg) : x \in mempool /\ x \notin DOMAIN txs

\* C32: persisting the same TxMsg twice leaves blocks, txs, chain_tips,
\* mempool_txs and the checkpoint as persisting it once does.
C32_PersistIdempotent ==
    rp.pc = "twice" => StoreNow = rp.once

C32_PersistedTwiceOverOtherBlock ==
    /\ rp.pc = "twice"
    /\ blocks[rp.msg.height].hash # rp.msg.hash
    /\ tips[rp.msg.height].hash = rp.msg.hash
    /\ ckpt.last = rp.msg.height

\* C33: once a HeaderFetcher in ranged mode has had a bulk fetch fail or
\* return a batch without the requested height, its buffer is empty and it is
\* in single-header mode for good: every later fetch sends
\* get_block_header_by_height and never a headers_range request.
C33_DowngradeIsPermanent ==
    /\ hf.pc # "none" /\ hf.fellBack => (~hf.use_range /\ hf.buffered = <<>>)
    /\ hf.pc # "none" /\ hf.before => hf.reqs = <<"get_block_header_by_height">>

C33_SingleAfterFallback ==
    /\ hf.pc = "ready"
    /\ hf.before
    /\ hf.last = 4
    /\ hf.batch = 3
    /\ hf.reqs = <<"get_block_header_by_height">>

\* C34: a mempool full refresh only inserts or updates rows: every hash in
\* mempool_txs before the refresh is still there after it, whether or not
\* pool_hashes() lists it.
C34_RefreshKeepsRows ==
    (wl.pc # "none" /\ wl.refreshed) => wl.before \subseteq mempool

C34_StaleRowKept ==
    /\ wl.refreshed /\ wl.outcome = "ok"
    /\ \E x \in wl.before : x \notin wl.pool /\ x \in mempool
    /\ \E y \in wl.pool : y \notin wl.before /\ y \in mempool

\* C35: once the socket is set up, no failed refresh and no receive error
\* ends the receive loop; a raw_tx or raw_block frame or a receive timeout
\* runs a full refresh, and a frame with another topic runs none.
C35_LoopNeverEnds ==
    (wl.pc # "none" /\ wl.up) =>
        /\ wl.pc = "recv"
        /\ wl.event \in {"raw_tx", "raw_block", "timeout"} => wl.refreshed
        /\ wl.event = "other_topic" => ~wl.refreshed

C35_RefreshedAfterFailure ==
    /\ wl.pc = "recv"
    /\ wl.event = "raw_block" /\ wl.outcome = "ok" /\ wl.pool # {}
    /\ wl.pool \subseteq mempool
    /\ wl.before = {}
    /\ wl.failed

\* the heights sent by the scheduler that the persister has not stored
QInFlight == (pq.next - 1) - Cardinality(pq.persisted)
\* the daemon has more heights left than the pipeline can hold
QMoreThanRoom == pq.tip - Cardinality(pq.persisted) > PipelineRoom(pq.cfg)
\* the scheduler has a height to send and its channel is full
QSchedBlocked ==
    /\ pq.next <= pq.tip
    /\ Len(pq.qs) = pq.cfg.sched_buffer
\* no queue above its capacity, no message handed to two workers, and the heights
\* in flight within what the queues and the workers can hold
QueuesBounded ==
    pq.pc = "run" =>
        /\ Len(pq.qs) <= pq.cfg.sched_buffer
        /\ Len(pq.qb) <= 4 * pq.cfg.block_workers
        /\ Len(pq.qt) <= 4 * pq.cfg.tx_workers
        /\ \A h \in 1..QHeights :
              /\ pq.gotB[h] = (IF h < pq.next /\ \A i \in 1..Len(pq.qs) : pq.qs[i] # h
                               THEN 1 ELSE 0)
              /\ pq.gotT[h] <= 1
              /\ (h \in pq.persisted \/ \E i \in 1..Len(pq.qt) : pq.qt[i] = h
                    \/ \E w \in 1..MaxTxWorkers : pq.tw[w] = h) => pq.gotT[h] = 1
        /\ QInFlight <= PipelineRoom(pq.cfg)

\* C36: no queue ever holds more messages than its capacity (sched_buffer,
\* 4 * block_workers, 4 * tx_workers), every message is received by exactly one
\* worker of its stage, and once the persister stops consuming the scheduler
\* comes to block on send, so the heights sent but not persisted stay bounded.
C36_BoundedQueuesBackPressure ==
    /\ []QueuesBounded
    /\ (pq.pc = "run" /\ pq.stalled /\ QMoreThanRoom) ~> QSchedBlocked

\* C36 witness: the persister has stopped, every queue is full, every worker
\* holds a message it cannot send, and the scheduler is blocked on send
C36_AllQueuesFull ==
    /\ pq.pc = "run"
    /\ pq.stalled
    /\ pq.cfg.sched_buffer = 2
    /\ pq.persisted # {}
    /\ QMoreThanRoom
    /\ QSchedBlocked
    /\ Len(pq.qb) = 4 * pq.cfg.block_workers
    /\ Len(pq.qt) = 4 * pq.cfg.tx_workers
    /\ \A w \in 1..pq.cfg.block_workers : pq.bw[w] # 0
    /\ \A w \in 1..pq.cfg.tx_workers : pq.tw[w] # 0
    /\ QInFlight = PipelineRoom(pq.cfg)

\* C37: at every height that has both a blocks row and a chain_tips row, the two
\* rows carry the same hash and the same prev_hash, also after a block message
\* arrives for a height that already holds a block with another hash.
C37_TipsAgreeWithBlocks ==
    \A h \in DOMAIN blocks \cap DOMAIN tips :
        /\ tips[h].hash = blocks[h].hash
        /\ tips[h].prev_hash = blocks[h].prev_hash

\* C37 case: one persist_block of a message for a height whose block row holds
\* another hash has left the block row as it was and moved the chain_tips row
C37_TipMovedBlockKept ==
    /\ rp.pc = "once"
    /\ rp.msg.height \in DOMAIN blocks
    /\ blocks[rp.msg.height].hash # rp.msg.hash
    /\ tips[rp.msg.height].hash = rp.msg.hash
    /\ tips[rp.msg.height].prev_hash # blocks[rp.msg.height].prev_hash

\* C38: the checkpoint is a low-water mark: whenever last_ingested is h, every
\* height from the first one the scheduler sent up to h has a blocks row,
\* whatever the number of workers, the order of arrival and the heals in between.
C38_CheckpointIsLowWaterMark ==
    ckpt.present => \A x \in StartHeight..ckpt.last : x \in DOMAIN blocks

\* C38 case: the block of height 2 was persisted before the block of height 1
\* and the checkpoint reads 2 with no heal having run
C38_CheckpointAheadOfGap ==
    /\ ckpt.present
    /\ ckpt.last = 2
    /\ 2 \in DOMAIN blocks
    /\ 1 \notin DOMAIN blocks
    /\ lastHeal = NoHeal

\* C39: when heal_reorg(start) has succeeded, every transaction recorded in a
\* block it deleted (any height at or above fork_height, the heights at or above
\* start that were already persisted included) has a mempool_txs row.
C39_HealRequeuesDeletedTxs ==
    [][(healTick' # healTick /\ lastHeal'.res = "ok") =>
          \A x \in DOMAIN txs :
              (txs[x] >= lastHeal'.fork /\ txs[x] \in DOMAIN blocks) => x \in mempool']_vars

\* C39 case: heal_reorg(3) found the fork at height 2 and deleted the stored
\* blocks 2 and 3; the transaction of block 2 is back in mempool_txs, the
\* transaction of block 3 is in neither table
C39_DeletedTxNotRequeued ==
    /\ lastHeal = [start |-> 3, fork |-> 2, res |-> "ok"]
    /\ ckpt.last = 3
    /\ DOMAIN blocks = {1}
    /\ <<"t", 2, 0>> \in mempool
    /\ <<"t", 3, 0>> \notin mempool
    /\ <<"t", 3, 0>> \notin DOMAIN txs

\* C40: a heal never deletes a block whose is_final flag is set: heal_reorg with
\* start <= tip deletes only blocks above max(0, tip - finality_window).
C40_HealSparesFinalBlocks ==
    [][(healTick' # healTick /\ lastHeal'.res = "ok" /\ lastHeal'.start <= dTip) =>
          \A h \in DOMAIN blocks :
              /\ blocks[h].is_final => h \in DOMAIN blocks'
              /\ h \notin DOMAIN blocks' => h > Max(0, dTip - FinalityWindow)]_vars

\* C40 case: a heal called with start at the tip has succeeded with its fork
\* height at tip - finality_window, and the block of that height is gone
C40_HealReachedFinalHeight ==
    /\ lastHeal.res = "ok"
    /\ lastHeal.start = dTip
    /\ lastHeal.fork = dTip - FinalityWindow
    /\ lastHeal.fork \notin DOMAIN blocks
    /\ lastHeal.fork - 1 \in DOMAIN blocks

====
